---- MODULE Spec2Model ----
(***************************************************************************)
(* State-machine model of the X -> WhatsApp bridge: the persistence        *)
(* gateway (packages/shared/src/database.ts and the Next.js-local          *)
(* packages/nextjs/src/lib/cid.ts), the singleton store handle, and the    *)
(* landing-visit and administrative-lookup request handlers.               *)
(*                                                                         *)
(* JavaScript runs each handler to completion between two awaits, so one   *)
(* action of the model is the code executed from one await to the next.    *)
(***************************************************************************)
EXTENDS Integers, Sequences, FiniteSets, TLC

(***************************************************************************)
(* Bounds of the model.                                                    *)
(***************************************************************************)
\* number of concurrently handled requests
MaxProcs == 2
\* number of store instances getDatabase() may construct in one behaviour
MaxInst == 2
\* cap on the synthetic row numbers / serial values handed out
MaxId == 2
\* cap on the init() calls made on one instance
MaxInits == 2

(***************************************************************************)
(* JavaScript values.                                                      *)
(***************************************************************************)
NULL == "null"
UNDEF == "undefined"
EMPTY == ""

\* the falsy values a string-or-null field can hold: x || y yields y for them
Falsy(v) == v \in {NULL, UNDEF, EMPTY}

\* v || null
OrNull(v) == IF Falsy(v) THEN NULL ELSE v

\* v || undefined
OrUndef(v) == IF Falsy(v) THEN UNDEF ELSE v

(***************************************************************************)
(* Strings that the code inspects character by character are sequences of  *)
(* one-character strings.                                                  *)
(***************************************************************************)
Digits == {"0", "1", "2", "3", "4", "5", "6", "7", "8", "9"}
Upper == {"A", "B", "C", "D", "E", "F", "G", "H", "I", "J", "K", "L", "M",
          "N", "O", "P", "Q", "R", "S", "T", "U", "V", "W", "X", "Y", "Z"}
Lower == {"a", "b", "c", "d", "e", "f", "g", "h", "i", "j", "k", "l", "m",
          "n", "o", "p", "q", "r", "s", "t", "u", "v", "w", "x", "y", "z"}
BASE62_ALPHABET == Digits \cup Upper \cup Lower

CID_LENGTH == 10

\* mutant of isValidCid: the length is checked, the alphabet is not
isValidCidLengthOnly(cid) ==
    /\ cid # <<>>
    /\ Len(cid) = CID_LENGTH

\* mutant of isValidCid: the alphabet is checked, the length is not
isValidCidAnyLength(cid) ==
    /\ cid # <<>>
    /\ \A i \in 1..Len(cid) : cid[i] \in BASE62_ALPHABET

\* isValidCid: non-empty, exactly 10 characters, /^[0-9A-Za-z]{10}$/
isValidCid(cid) ==
    /\ cid # <<>>
    /\ Len(cid) = CID_LENGTH
    /\ \A i \in 1..Len(cid) : cid[i] \in BASE62_ALPHABET

\* identifiers the random source may produce in this model
CidA == <<"A", "B", "C", "1", "2", "3", "D", "E", "F", "0">>
CidB == <<"x", "Y", "z", "7", "8", "9", "q", "R", "s", "5">>
CidPool == {CidA, CidB}

\* generateCid(): one draw of customAlphabet(BASE62_ALPHABET, 10)
generateCid == CidPool

\* identifiers a client may put in the lookup URL
CidShort == <<"A", "B", "C">>
CidLong == <<"A", "B", "C", "1", "2", "3", "D", "E", "F", "0", "1">>
CidHyphen == <<"A", "B", "C", "-", "2", "3", "D", "E", "F", "0">>
CidUnderscore == <<"A", "B", "C", "1", "2", "3", "D", "E", "F", "_">>
ClientCids == CidPool \cup {<<>>, CidShort, CidLong, CidHyphen, CidUnderscore}

(***************************************************************************)
(* Click records.                                                          *)
(***************************************************************************)
OptFields == {"twclid", "utm_source", "utm_medium", "utm_campaign",
              "utm_content", "user_agent", "referer", "ip_hash"}
KeyFields == {"cid", "slug", "created_at"}

\* createClickRecord(cid, slug, params) called at time now
createClickRecord(cid, slug, now, params) ==
    [cid |-> cid,
     slug |-> slug,
     created_at |-> now,
     twclid |-> OrNull(params.twclid),
     utm_source |-> OrNull(params.utm_source),
     utm_medium |-> OrNull(params.utm_medium),
     utm_campaign |-> OrNull(params.utm_campaign),
     utm_content |-> OrNull(params.utm_content),
     user_agent |-> OrNull(params.user_agent),
     referer |-> OrNull(params.referer),
     ip_hash |-> OrNull(params.ip_hash)]

\* request parameters: nothing supplied, everything supplied, some empty
NoParams == [f \in OptFields |-> UNDEF]
FullParams == [f \in OptFields |-> "v_" \o f]
EmptyParams == [f \in OptFields |-> IF f = "twclid" THEN EMPTY ELSE "v_" \o f]

\* an Omit<ClickRecord,'id'> built by hand: an optional field may be ''
RawClick(cid, slug, now, v) ==
    [cid |-> cid, slug |-> slug, created_at |-> now,
     twclid |-> v, utm_source |-> NULL, utm_medium |-> NULL,
     utm_campaign |-> "x-default", utm_content |-> NULL,
     user_agent |-> NULL, referer |-> NULL, ip_hash |-> "h1"]

\* the records a caller of insertClick may pass
ClickInputs ==
    {createClickRecord(c, "pune", "T1", NoParams) : c \in CidPool}
      \cup {createClickRecord(c, "default", "T2", FullParams) : c \in CidPool}
      \cup {RawClick(c, "pune", "T2", EMPTY) : c \in CidPool}

(***************************************************************************)
(* Finite maps (JavaScript Map, SQL table keyed by the unique column).     *)
(***************************************************************************)
EmptyMap == [k \in {} |-> NULL]

\* mutant of Put: the entry replaces the content of the map
PutClobber(m, k, v) == [x \in {k} |-> v]

\* m.set(k, v); INSERT of the row with unique key k
Put(m, k, v) == [x \in DOMAIN m \cup {k} |-> IF x = k THEN v ELSE m[x]]

\* the rows a lookup by key yields: m.get(k), stmt.get(k), result.rows;
\* the caller turns no row into null (row || null)
Lookup(m, k) == IF k \in DOMAIN m THEN {m[k]} ELSE {}

\* { ...click, id }
WithId(click, id) ==
    [f \in DOMAIN click \cup {"id"} |-> IF f = "id" THEN id ELSE click[f]]

(***************************************************************************)
(* Process configuration.                                                  *)
(***************************************************************************)
\* the three deployments of the handlers: the Express server and the Next.js
\* routes built on the shared package, and the Next.js routes built on the
\* package-local lib/
Deployments == {"express", "next", "nextlocal"}

SharedKinds == {"memory", "sqlite", "postgres"}
LocalKinds == {"nmemory", "npostgres"}

PhoneValid == <<"1", "4", "1", "5", "5", "5", "5", "2", "6", "7", "1">>
PhoneLeadingZero == <<"0", "1", "2", "3", "4", "5", "6", "7">>

\* mutant of isValidPhoneNumber: a leading 0 is let through
isValidPhoneNumberAnyLead(phone) ==
    /\ Len(phone) >= 7
    /\ Len(phone) <= 15
    /\ \A i \in 1..Len(phone) : phone[i] \in Digits

\* isValidPhoneNumber: /^[1-9]\d{6,14}$/
isValidPhoneNumber(phone) ==
    /\ Len(phone) >= 7
    /\ Len(phone) <= 15
    /\ phone[1] \in Digits \ {"0"}
    /\ \A i \in 1..Len(phone) : phone[i] \in Digits

\* process.env as read by getEnvConfig(); <<>> is the unset WHATSAPP_NUMBER
EnvSamples ==
    [DATABASE_URL : {UNDEF, "postgres://db"},
     NODE_ENV : {"test", "production"},
     WHATSAPP_NUMBER : {PhoneValid},
     ADMIN_TOKEN : {"secret"}]
      \cup
    [DATABASE_URL : {UNDEF},
     NODE_ENV : {"test"},
     WHATSAPP_NUMBER : {<<>>, PhoneLeadingZero},
     ADMIN_TOKEN : {UNDEF, "secret"}]

\* getDatabase(): which class is instantiated
SelectBackend(dep, e) ==
    IF dep = "nextlocal"
    THEN IF ~Falsy(e.DATABASE_URL) THEN "npostgres" ELSE "nmemory"
    ELSE IF ~Falsy(e.DATABASE_URL) THEN "postgres"
         ELSE IF e.NODE_ENV = "test" THEN "memory"
         ELSE "sqlite"

(***************************************************************************)
(* Store instances.  handle is this.db / this.pool: "null", "open", or     *)
(* (pool only) "ended" once pool.end() has been called.  closed records    *)
(* that close() has been called, inits counts the init() calls that have   *)
(* completed.                                                              *)
(***************************************************************************)
NewInstance(kind) ==
    [kind |-> kind,
     handle |-> "null",
     clicks |-> EmptyMap,
     idCounter |-> 1,
     closed |-> FALSE,
     inits |-> 0]

\* outcomes of an operation
OK == "ok"
ErrNotInit == "Database not initialized"
ErrUnique == "unique constraint violation"
ErrNoTable == "relation clicks does not exist"
ErrPoolEnded == "cannot use a pool after calling end"
ErrConn == "connection failure"
Errors == {ErrNotInit, ErrUnique, ErrNoTable, ErrPoolEnded, ErrConn}

\* what a call leaves: its result (OK or the error thrown), the rows it
\* returns (none: null), the instance and the world after it
Outcome(res, self, w) == [res |-> res, rows |-> {}, self |-> self, w |-> w]

Found(rows, self, w) == [res |-> OK, rows |-> rows, self |-> self, w |-> w]

\* the row a SQL INSERT stores: every optional column is value || null
SqlRow(click, id) ==
    [id |-> id,
     cid |-> click.cid,
     slug |-> click.slug,
     created_at |-> click.created_at,
     twclid |-> OrNull(click.twclid),
     utm_source |-> OrNull(click.utm_source),
     utm_medium |-> OrNull(click.utm_medium),
     utm_campaign |-> OrNull(click.utm_campaign),
     utm_content |-> OrNull(click.utm_content),
     user_agent |-> OrNull(click.user_agent),
     referer |-> OrNull(click.referer),
     ip_hash |-> OrNull(click.ip_hash)]

(***************************************************************************)
(* SqliteDatabase.  w.disk is the database file: its clicks table (cid     *)
(* UNIQUE, id AUTOINCREMENT).                                              *)
(***************************************************************************)
\* mutant of SqliteInit: the schema is recreated, dropping the stored rows
SqliteInitRecreate(self, w) ==
    Outcome(OK,
            [self EXCEPT !.handle = "open", !.inits = @ + 1],
            [w EXCEPT !.disk.table = TRUE, !.disk.rows = EmptyMap])

SqliteInit(self, w) ==
    Outcome(OK,
            [self EXCEPT !.handle = "open", !.inits = @ + 1],
            [w EXCEPT !.disk.table = TRUE])

SqliteInsertClick(self, w, click) ==
    IF self.handle = "null" THEN Outcome(ErrNotInit, self, w)
    ELSE IF click.cid \in DOMAIN w.disk.rows THEN Outcome(ErrUnique, self, w)
    ELSE Outcome(OK, self,
                 [w EXCEPT !.disk.rows = Put(@, click.cid, SqlRow(click, w.disk.seq)),
                           !.disk.seq = @ + 1])

SqliteGetClickByCid(self, w, cid) ==
    IF self.handle = "null" THEN Outcome(ErrNotInit, self, w)
    ELSE Found(Lookup(w.disk.rows, cid), self, w)

SqliteClose(self, w) ==
    Outcome(OK, [self EXCEPT !.handle = "null", !.closed = TRUE], w)

(***************************************************************************)
(* PostgresDatabase of the shared package.  w.disk is the remote database. *)
(***************************************************************************)
\* if (!this.pool) throw; a query on an ended pool rejects
PoolCheck(self) ==
    IF self.handle = "null" THEN ErrNotInit
    ELSE IF self.handle = "ended" THEN ErrPoolEnded
    ELSE OK

\* INSERT INTO clicks: cid UNIQUE, id SERIAL (the serial is consumed even
\* when the row is rejected)
PgInsert(self, w, click) ==
    IF ~w.disk.table THEN Outcome(ErrNoTable, self, w)
    ELSE IF click.cid \in DOMAIN w.disk.rows
         THEN Outcome(ErrUnique, self, [w EXCEPT !.disk.seq = @ + 1])
    ELSE Outcome(OK, self,
                 [w EXCEPT !.disk.rows = Put(@, click.cid, SqlRow(click, w.disk.seq)),
                           !.disk.seq = @ + 1])

\* SELECT * FROM clicks WHERE cid = $1; rows[0] || null
PgSelect(self, w, cid) ==
    IF ~w.disk.table THEN Outcome(ErrNoTable, self, w)
    ELSE Found(Lookup(w.disk.rows, cid), self, w)

\* this.pool = new Pool(...)
PostgresInitPool(self) == [self EXCEPT !.handle = "open"]

\* CREATE TABLE IF NOT EXISTS clicks; CREATE INDEX IF NOT EXISTS
PgCreateTable(w) == [w EXCEPT !.disk.table = TRUE]

\* pool.connect(), the two CREATE statements, client.release()
PostgresInitSchema(self, w) ==
    Outcome(OK, [self EXCEPT !.inits = @ + 1], PgCreateTable(w))

PostgresInit(self, w) == PostgresInitSchema(PostgresInitPool(self), w)

PostgresInsertClick(self, w, click) ==
    IF PoolCheck(self) # OK THEN Outcome(PoolCheck(self), self, w)
    ELSE PgInsert(self, w, click)

PostgresGetClickByCid(self, w, cid) ==
    IF PoolCheck(self) # OK THEN Outcome(PoolCheck(self), self, w)
    ELSE PgSelect(self, w, cid)

\* if (this.pool) { await this.pool.end(); this.pool = null }
PostgresCloseBegin(self) ==
    [self EXCEPT !.handle = IF @ = "null" THEN "null" ELSE "ended",
                 !.closed = TRUE]

PostgresCloseEnd(self) == [self EXCEPT !.handle = "null"]

PostgresClose(self, w) ==
    Outcome(OK, PostgresCloseEnd(PostgresCloseBegin(self)), w)

(***************************************************************************)
(* InMemoryDatabase of the shared package: a Map per instance.             *)
(***************************************************************************)
InMemoryInit(self, w) == Outcome(OK, [self EXCEPT !.inits = @ + 1], w)

InMemoryInsertClick(self, w, click) ==
    Outcome(OK,
            [self EXCEPT !.clicks = Put(@, click.cid, WithId(click, self.idCounter)),
                         !.idCounter = @ + 1],
            w)

InMemoryGetClickByCid(self, w, cid) ==
    Found(Lookup(self.clicks, cid), self, w)

\* mutant of InMemoryClose: the counter starts again
InMemoryCloseReset(self, w) ==
    Outcome(OK, [self EXCEPT !.clicks = EmptyMap, !.idCounter = 1, !.closed = TRUE], w)

InMemoryClose(self, w) ==
    Outcome(OK, [self EXCEPT !.clicks = EmptyMap, !.closed = TRUE], w)

(***************************************************************************)
(* The Next.js-local classes of lib/cid.ts: a module-level Map, and a      *)
(* Postgres class that opens a pool per call and creates the table only    *)
(* when inserting.                                                         *)
(***************************************************************************)
LocalInMemoryInsertClick(self, w, click) ==
    Outcome(OK, self,
            [w EXCEPT !.memoryStore = Put(@, click.cid, WithId(click, w.memoryIdCounter)),
                      !.memoryIdCounter = @ + 1])

LocalInMemoryGetClickByCid(self, w, cid) ==
    Found(Lookup(w.memoryStore, cid), self, w)

LocalPostgresInsertClick(self, w, click) ==
    PgInsert(self, PgCreateTable(w), click)

LocalPostgresGetClickByCid(self, w, cid) ==
    PgSelect(self, w, cid)

(***************************************************************************)
(* The Database interface: dispatch on the class of the instance.          *)
(***************************************************************************)
DbInit(self, w) ==
    CASE self.kind = "sqlite" -> SqliteInit(self, w)
      [] self.kind = "postgres" -> PostgresInit(self, w)
      [] self.kind = "memory" -> InMemoryInit(self, w)

DbInsertClick(self, w, click) ==
    CASE self.kind = "sqlite" -> SqliteInsertClick(self, w, click)
      [] self.kind = "postgres" -> PostgresInsertClick(self, w, click)
      [] self.kind = "memory" -> InMemoryInsertClick(self, w, click)
      [] self.kind = "nmemory" -> LocalInMemoryInsertClick(self, w, click)
      [] self.kind = "npostgres" -> LocalPostgresInsertClick(self, w, click)

DbGetClickByCid(self, w, cid) ==
    CASE self.kind = "sqlite" -> SqliteGetClickByCid(self, w, cid)
      [] self.kind = "postgres" -> PostgresGetClickByCid(self, w, cid)
      [] self.kind = "memory" -> InMemoryGetClickByCid(self, w, cid)
      [] self.kind = "nmemory" -> LocalInMemoryGetClickByCid(self, w, cid)
      [] self.kind = "npostgres" -> LocalPostgresGetClickByCid(self, w, cid)

DbClose(self, w) ==
    CASE self.kind = "sqlite" -> SqliteClose(self, w)
      [] self.kind = "postgres" -> PostgresClose(self, w)
      [] self.kind = "memory" -> InMemoryClose(self, w)

(***************************************************************************)
(* State.                                                                  *)
(***************************************************************************)
VARIABLES
    deploy,           \* which deployment of the handlers runs
    env,              \* process.env
    inst,             \* the store instances constructed so far, by number
    dbInstance,       \* the singleton handle: 0 is null, else an instance number
    disk,             \* the file / remote database: [table, rows, seq]
    memoryStore,      \* lib/cid.ts: module-level Map
    memoryIdCounter,  \* lib/cid.ts: module-level counter
    h,                \* the reference a direct caller got from getDatabase()
    last,             \* the latest call of a direct caller and its outcome
    server,           \* "boot", "listening" or "exited"
    procs,            \* the tasks in flight: start() and the request handlers
    slugConfigCache   \* database.ts: the cached slug profiles, {} is null

vars == <<deploy, env, inst, dbInstance, disk, memoryStore, memoryIdCounter, h, last,
          server, procs, slugConfigCache>>

\* the state outside the instances that the store classes read and write
World == [disk |-> disk, memoryStore |-> memoryStore, memoryIdCounter |-> memoryIdCounter]

SetWorld(w) ==
    /\ disk' = w.disk
    /\ memoryStore' = w.memoryStore
    /\ memoryIdCounter' = w.memoryIdCounter

Instances == 1..Len(inst)

\* the records instance self holds, by identifier
View(self, w) ==
    CASE self.kind = "memory" -> self.clicks
      [] self.kind = "nmemory" -> w.memoryStore
      [] OTHER -> w.disk.rows

\* the next synthetic row number the instance would hand out
Counter(self, w) ==
    CASE self.kind = "memory" -> self.idCounter
      [] self.kind = "nmemory" -> w.memoryIdCounter
      [] OTHER -> w.disk.seq

\* the instance is used as the interface prescribes: after init(), not after close()
InContract(self) ==
    \/ self.kind \in LocalKinds
    \/ self.inits > 0 /\ ~self.closed

\* a call that returned nothing and threw nothing
Done == [res |-> OK, rows |-> {}]

\* a call record: the operation, the instance, the identifier and record
\* passed, the outcome, whether the identifier was stored before the call,
\* the records held before an init(), and whether the call was in contract
NoCall ==
    [op |-> "none", i |-> 0, cid |-> <<>>, click |-> {}, res |-> OK, rows |-> {},
     dup |-> FALSE, before |-> EmptyMap, contract |-> FALSE]

Call(op, i, cid, click, o, before, contract) ==
    [op |-> op, i |-> i, cid |-> cid, click |-> click, res |-> o.res,
     rows |-> o.rows,
     dup |-> cid \in DOMAIN before,
     before |-> IF op = "init" THEN before ELSE EmptyMap,
     contract |-> contract]

\* the tasks: 0 is start() / the SIGTERM handler of the Express server, the
\* others handle one request each
Procs == 1..MaxProcs
Tasks == 0..MaxProcs

\* the store call a handler made: the operation, the instance, and whether
\* close() had been called on that instance before
NoStoreCall == [op |-> "none", i |-> 0, closed |-> FALSE]

IdleProc ==
    [kind |-> "idle", pc |-> "idle", db |-> 0, made |-> 0, cid |-> <<>>,
     click |-> {}, err |-> OK, rows |-> {}, status |-> 0, logged |-> FALSE,
     call |-> NoStoreCall, text |-> "absent", raised |-> {}, token |-> UNDEF]

\* the state every deployment starts in
Fresh ==
    /\ server = IF deploy = "express" THEN "boot" ELSE "listening"
    /\ procs = [p \in Tasks |-> IdleProc]
    /\ inst = <<>>
    /\ dbInstance = 0
    /\ disk = [table |-> FALSE, rows |-> EmptyMap, seq |-> 1]
    /\ memoryStore = EmptyMap
    /\ memoryIdCounter = 1
    /\ h = 0
    /\ last = NoCall
    /\ slugConfigCache = {}

Init ==
    /\ deploy \in Deployments
    /\ env \in EnvSamples
    /\ Fresh

\* a caller of the package: one of the two packages, any store configuration
InitStore ==
    /\ deploy \in {"next", "nextlocal"}
    /\ env \in {e \in EnvSamples : e.WHATSAPP_NUMBER = PhoneValid}
    /\ Fresh

(***************************************************************************)
(* getDatabase() and closeDatabase(), each awaited to completion.  The    *)
(* caller keeps the reference it got until it calls closeDatabase().       *)
(***************************************************************************)
\* the instance getDatabase() constructs, after its init() (shared package)
Constructed(kind, w) ==
    IF kind \in SharedKinds
    THEN DbInit(NewInstance(kind), w)
    ELSE Outcome(OK, NewInstance(kind), w)

ApiGetDatabase ==
    /\ IF dbInstance # 0
       THEN /\ h' = dbInstance
            /\ UNCHANGED <<inst, dbInstance, disk, memoryStore, memoryIdCounter>>
       ELSE /\ Len(inst) < MaxInst
            /\ LET o == Constructed(SelectBackend(deploy, env), World)
               IN /\ inst' = Append(inst, o.self)
                  /\ dbInstance' = Len(inst) + 1
                  /\ h' = Len(inst) + 1
                  /\ SetWorld(o.w)
    /\ last' = Call("getDatabase", h', <<>>, {}, Done, EmptyMap, TRUE)
    /\ UNCHANGED <<deploy, env, slugConfigCache, server, procs>>

ApiCloseDatabase ==
    /\ deploy # "nextlocal"
    /\ IF dbInstance # 0
       THEN LET o == DbClose(inst[dbInstance], World)
            IN /\ inst' = [inst EXCEPT ![dbInstance] = o.self]
               /\ SetWorld(o.w)
               /\ dbInstance' = 0
       ELSE UNCHANGED <<inst, dbInstance, disk, memoryStore, memoryIdCounter>>
    /\ h' = 0
    /\ last' = Call("closeDatabase", dbInstance, <<>>, {}, Done, EmptyMap, TRUE)
    /\ UNCHANGED <<deploy, env, slugConfigCache, server, procs>>

(***************************************************************************)
(* The four operations of the Database interface, called directly on the   *)
(* reference h and awaited (as the tests of the shared package do).        *)
(***************************************************************************)
ApiInit ==
    /\ h # 0
    /\ inst[h].kind \in SharedKinds
    /\ inst[h].inits < MaxInits
    /\ LET o == DbInit(inst[h], World)
       IN /\ inst' = [inst EXCEPT ![h] = o.self]
          /\ SetWorld(o.w)
          /\ last' = Call("init", h, <<>>, {}, o, View(inst[h], World),
                          InContract(inst[h]))
    /\ UNCHANGED <<deploy, env, slugConfigCache, dbInstance, h, server, procs>>

ApiInsertClick ==
    /\ h # 0
    /\ Counter(inst[h], World) <= MaxId
    /\ \E click \in ClickInputs :
         LET o == DbInsertClick(inst[h], World, click)
         IN /\ inst' = [inst EXCEPT ![h] = o.self]
            /\ SetWorld(o.w)
            /\ last' = Call("insertClick", h, click.cid, {click}, o,
                            View(inst[h], World), InContract(inst[h]))
    /\ UNCHANGED <<deploy, env, slugConfigCache, dbInstance, h, server, procs>>

ApiGetClickByCid ==
    /\ h # 0
    /\ \E cid \in CidPool :
         LET o == DbGetClickByCid(inst[h], World, cid)
         IN /\ inst' = [inst EXCEPT ![h] = o.self]
            /\ SetWorld(o.w)
            /\ last' = Call("getClickByCid", h, cid, {}, o,
                            View(inst[h], World), InContract(inst[h]))
    /\ UNCHANGED <<deploy, env, slugConfigCache, dbInstance, h, server, procs>>

ApiClose ==
    /\ h # 0
    /\ inst[h].kind \in SharedKinds
    /\ LET o == DbClose(inst[h], World)
       IN /\ inst' = [inst EXCEPT ![h] = o.self]
          /\ SetWorld(o.w)
          /\ last' = Call("close", h, <<>>, {}, o, View(inst[h], World),
                          InContract(inst[h]))
    /\ UNCHANGED <<deploy, env, slugConfigCache, dbInstance, h, server, procs>>

NextStore ==
    \/ ApiGetDatabase
    \/ ApiCloseDatabase
    \/ ApiInit
    \/ ApiInsertClick
    \/ ApiGetClickByCid
    \/ ApiClose

\* a sequential caller of the persistence gateway
StoreSpec == InitStore /\ [][NextStore]_vars

(***************************************************************************)
(* Properties of the persistence gateway (checked under StoreSpec).        *)
(***************************************************************************)
\* the fields of a click record that a caller supplies
ClickFields == KeyFields \cup OptFields

\* C1: in every backend, an insertClick whose identifier is already stored in
\* the instance fails with the uniqueness violation.
DuplicateInsertRejected ==
    (last.op = "insertClick" /\ last.contract /\ last.dup)
        => last.res = ErrUnique

\* C2: a stored record is never updated: whatever call is made on a store
\* that is not closed, every record it held is still held, unchanged.
RecordNeverUpdated ==
    [][\A i \in Instances :
         (~inst[i].closed /\ ~inst'[i].closed) =>
            \A c \in DOMAIN View(inst[i], World) :
                Lookup(View(inst'[i], World'), c) = {View(inst[i], World)[c]}]_vars

MissingLookupReturnsNull ==
    (last.op = "getClickByCid" /\ last.contract /\ ~last.dup)
        => (last.res = OK /\ last.rows = {})

\* C10: init() on an initialised store keeps every stored record and leaves
\* the store usable: lookups return what they returned before, and a record
\* with a new identifier can be inserted.
InitIdempotent ==
    (last.op = "init" /\ last.contract) =>
        LET self == inst[last.i]
        IN /\ last.res = OK
           /\ View(self, World) = last.before
           /\ \A c \in CidPool :
                LET got == DbGetClickByCid(self, World, c)
                IN got.res = OK /\ got.rows = Lookup(last.before, c)
           /\ \A click \in ClickInputs :
                click.cid \notin DOMAIN last.before
                    => DbInsertClick(self, World, click).res = OK

\* C10 witness: init() has been called again on a store that holds a record
InitIdempotentWitness ==
    last.op = "init" /\ last.contract /\ last.before # EmptyMap

(***************************************************************************)
(* Slug configuration of the shared package.  A JSON document is a record  *)
(* [t, m]: t is its type, m its entries when it is an object.  The cache   *)
(* and every optional value are sets: {} is null / undefined.              *)
(***************************************************************************)
DEFAULT_SLUG_CONFIG ==
    [slug |-> "default", baseText |-> "Hi Tal", defaultUtmCampaign |-> "x-default"]

Profile(slug, baseText) ==
    [slug |-> slug, baseText |-> baseText, defaultUtmCampaign |-> "x-" \o slug]

ObjectDoc(m) == [t |-> "object", m |-> m]
ScalarDoc(t) == [t |-> t, m |-> EmptyMap]

\* JavaScript truthiness of a document
Truthy(doc) == doc.t \notin {"null", "zero", "emptystring"}

\* { default: DEFAULT_SLUG_CONFIG }
DefaultMap == ObjectDoc([k \in {"default"} |-> DEFAULT_SLUG_CONFIG])

\* maps whose entries all have slug and baseText
GoodMaps ==
    {[k \in {"default", "pune"} |-> Profile(k, "Hi " \o k)],
     [k \in {"pune"} |-> Profile(k, "Hello")],
     EmptyMap}

\* maps with an entry without baseText, or with an empty slug
BadMaps ==
    {[k \in {"default", "pune"} |->
        IF k = "pune" THEN [Profile(k, "Hi") EXCEPT !.baseText = UNDEF]
        ELSE Profile(k, "Hi")],
     [k \in {"default"} |-> [Profile(k, "Hi") EXCEPT !.slug = EMPTY]]}

\* the argument of loadSlugConfigs: nothing, a string (with the document it
\* parses to, {} when JSON.parse throws), or an object
ArgAbsent == [is |-> "undefined", empty |-> TRUE, doc |-> {}]
ArgString(docs, empty) == [is |-> "string", empty |-> empty, doc |-> docs]
ArgObject(m) == [is |-> "object", empty |-> FALSE, doc |-> {ObjectDoc(m)}]

LoadArgs ==
    {ArgAbsent, ArgString({}, TRUE), ArgString({}, FALSE)}
      \cup {ArgString({ObjectDoc(m)}, FALSE) : m \in GoodMaps \cup BadMaps}
      \cup {ArgString({ScalarDoc(t)}, FALSE) : t \in {"null", "number", "zero", "string"}}
      \cup {ArgObject(m) : m \in GoodMaps \cup BadMaps}

\* JSON.parse(configJson): the document, or {} for a SyntaxError
JSONparse(arg) == arg.doc

\* the validation loop over Object.entries(configs) completes without a throw
EntriesValid(doc) ==
    CASE doc.t = "null" -> FALSE
      [] doc.t = "string" -> FALSE
      [] doc.t = "object" ->
            \A k \in DOMAIN doc.m :
                ~Falsy(doc.m[k].slug) /\ ~Falsy(doc.m[k].baseText)
      [] OTHER -> TRUE

\* the outcome of a call: the cache afterwards, the value returned, whether
\* an error left the function, whether one was logged
CfgOutcome(cache, ret, logged) ==
    [cache |-> cache, ret |-> ret, thrown |-> FALSE, logged |-> logged]

\* mutant of loadSlugConfigs: the cache is not consulted
loadSlugConfigsReload(cache, arg) ==
    IF arg.is = "undefined" \/ arg.empty
    THEN CfgOutcome({DefaultMap}, {DefaultMap}, FALSE)
    ELSE IF JSONparse(arg) # {} /\ \A d \in JSONparse(arg) : EntriesValid(d)
    THEN CfgOutcome(JSONparse(arg), JSONparse(arg), FALSE)
    ELSE CfgOutcome({DefaultMap}, {DefaultMap}, TRUE)

\* mutant of loadSlugConfigs: the entries are not validated
loadSlugConfigsUnchecked(cache, arg) ==
    IF \E d \in cache : Truthy(d)
    THEN CfgOutcome(cache, cache, FALSE)
    ELSE IF arg.is = "undefined" \/ arg.empty
    THEN CfgOutcome({DefaultMap}, {DefaultMap}, FALSE)
    ELSE IF JSONparse(arg) # {} /\ \A d \in JSONparse(arg) : d.t # "null"
    THEN CfgOutcome(JSONparse(arg), JSONparse(arg), FALSE)
    ELSE CfgOutcome({DefaultMap}, {DefaultMap}, TRUE)

\* loadSlugConfigs(configJson)
loadSlugConfigs(cache, arg) ==
    IF \E d \in cache : Truthy(d)
    THEN CfgOutcome(cache, cache, FALSE)
    ELSE IF arg.is = "undefined" \/ arg.empty
    THEN CfgOutcome({DefaultMap}, {DefaultMap}, FALSE)
    ELSE IF JSONparse(arg) # {} /\ \A d \in JSONparse(arg) : EntriesValid(d)
    THEN CfgOutcome(JSONparse(arg), JSONparse(arg), FALSE)
    ELSE CfgOutcome({DefaultMap}, {DefaultMap}, TRUE)

\* the property names every object inherits from Object.prototype
ObjectPrototype ==
    {"constructor", "__proto__", "hasOwnProperty", "isPrototypeOf",
     "propertyIsEnumerable", "toLocaleString", "toString", "valueOf",
     "__defineGetter__", "__defineSetter__", "__lookupGetter__", "__lookupSetter__"}

\* the function or object inherited under name k
Inherited(k) == [builtin |-> k]

\* obj[k]: the own property, else the inherited one, else undefined ({})
Get(m, k) ==
    IF k \in DOMAIN m THEN {m[k]}
    ELSE IF k \in ObjectPrototype THEN {Inherited(k)}
    ELSE {}

\* getSlugConfig(slug, configs) of the shared package
getSlugConfigShared(cache, slug, configs) ==
    LET cached == {d \in cache : Truthy(d)}
        loaded == IF configs = {} /\ cached = {}
                  THEN loadSlugConfigs(cache, ArgAbsent)
                  ELSE CfgOutcome(cache, cache, FALSE)
        allConfigs == IF configs # {} THEN configs
                      ELSE IF cached # {} THEN cached
                      ELSE loaded.ret
        d == CHOOSE x \in allConfigs : TRUE
    IN CfgOutcome(loaded.cache,
                  IF Get(d.m, slug) # {} THEN Get(d.m, slug)
                  ELSE IF Get(d.m, "default") # {} THEN Get(d.m, "default")
                  ELSE {DEFAULT_SLUG_CONFIG},
                  loaded.logged)

\* clearConfigCache()
clearConfigCache(cache) == CfgOutcome({}, {}, FALSE)

(***************************************************************************)
(* Environment validation and the health endpoint.                         *)
(***************************************************************************)
Repeat(c, n) == [i \in 1..n |-> c]

\* values of WHATSAPP_NUMBER: unset, 7 and 15 digits, 6 and 16 digits, a
\* leading zero, a leading '+', a letter inside
NumberSamples ==
    {<<>>, PhoneValid, PhoneLeadingZero,
     Repeat("7", 7), Repeat("9", 15), Repeat("7", 6), Repeat("9", 16),
     <<"+">> \o PhoneValid, <<"1", "2", "3", "a", "5", "6", "7", "8">>}

HealthEnvs ==
    [DATABASE_URL : {UNDEF, "postgres://db"},
     NODE_ENV : {"production"},
     WHATSAPP_NUMBER : NumberSamples,
     ADMIN_TOKEN : {UNDEF, "secret"}]

ErrRequired == "WHATSAPP_NUMBER is required"
ErrFormat == "WHATSAPP_NUMBER must be E.164 format digits (no +)"

\* mutant of validateEnvConfig: only the presence of the number is checked
validateEnvConfigPresence(config) ==
    IF config.WHATSAPP_NUMBER = <<>> THEN <<ErrRequired>> ELSE <<>>

\* validateEnvConfig(config): the list of errors
validateEnvConfig(config) ==
    IF config.WHATSAPP_NUMBER = <<>>
    THEN <<ErrRequired>>
    ELSE IF ~(/\ Len(config.WHATSAPP_NUMBER) \in 7..15
              /\ config.WHATSAPP_NUMBER[1] \in Digits \ {"0"}
              /\ \A i \in 1..Len(config.WHATSAPP_NUMBER) :
                    config.WHATSAPP_NUMBER[i] \in Digits)
    THEN <<ErrFormat>>
    ELSE <<>>

\* GET /healthz: the response
healthz(e) ==
    LET errors == validateEnvConfig(e)
        status == IF Len(errors) = 0 THEN "healthy" ELSE "degraded"
    IN [code |-> IF status = "healthy" THEN 200 ELSE 503,
        status |-> status,
        warnings |-> IF Len(errors) > 0 THEN {errors} ELSE {}]

(***************************************************************************)
(* The message composer (whatsapp.ts; lib/whatsapp.ts holds the same       *)
(* code).  A string is the sequence of its UTF-16 code units; an encoded   *)
(* string and a URL are sequences of pieces.                               *)
(***************************************************************************)
MAX_MESSAGE_LENGTH == 2000

NUL == "\\0"
\* the two halves of a surrogate pair (an emoji is <<HI, LO>>)
HI == "\\uD83D"
LO == "\\uDE0A"
Whitespace == {" ", "\t", "\n"}
Reserved == {" ", "\t", "\n", ":", "&", "=", "%", "?", NUL}
Chars == Digits \cup Upper \cup Lower \cup Reserved \cup {"(", ")", "!", HI, LO}

\* String.prototype.trim
RECURSIVE TrimStart(_)
TrimStart(s) ==
    IF s # <<>> /\ Head(s) \in Whitespace THEN TrimStart(Tail(s)) ELSE s

RECURSIVE TrimEnd(_)
TrimEnd(s) ==
    IF s # <<>> /\ s[Len(s)] \in Whitespace
    THEN TrimEnd(SubSeq(s, 1, Len(s) - 1))
    ELSE s

trim(s) == TrimEnd(TrimStart(s))

\* replace(/\0/g, '')
IsNotNul(c) == c # NUL
removeNullBytes(s) == SelectSeq(s, IsNotNul)

\* slice(0, n)
slice(s, n) == SubSeq(s, 1, IF Len(s) < n THEN Len(s) ELSE n)

\* sanitizeMessageText(text)
sanitizeMessageText(text) ==
    slice(removeNullBytes(trim(text)), MAX_MESSAGE_LENGTH)

CidSuffix(cid) == <<" ", "(", "c", "i", "d", ":">> \o cid \o <<")">>

\* buildMessageWithCid(baseText, cid)
buildMessageWithCid(baseText, cid) == sanitizeMessageText(baseText) \o CidSuffix(cid)

\* the percent-encoding of one code unit; a surrogate pair becomes the four
\* bytes of its code point, two for each half
Enc(c) ==
    CASE c = " " -> "%20"
      [] c = "\t" -> "%09"
      [] c = "\n" -> "%0A"
      [] c = ":" -> "%3A"
      [] c = "&" -> "%26"
      [] c = "=" -> "%3D"
      [] c = "%" -> "%25"
      [] c = "?" -> "%3F"
      [] c = NUL -> "%00"
      [] c = HI -> "%F0%9F"
      [] c = LO -> "%98%8A"
      [] OTHER -> c

\* every surrogate half of s has its partner next to it
WellFormedUtf16(s) ==
    \A i \in 1..Len(s) :
        /\ s[i] = HI => (i < Len(s) /\ s[i + 1] = LO)
        /\ s[i] = LO => (i > 1 /\ s[i - 1] = HI)

\* encodeURIComponent(s): the encoded string, or {} when it throws URIError
encodeURIComponent(s) ==
    IF WellFormedUtf16(s) THEN {[i \in 1..Len(s) |-> Enc(s[i])]} ELSE {}

\* decodeURIComponent(t)
decodeURIComponent(t) ==
    [i \in 1..Len(t) |-> CHOOSE c \in Chars : Enc(c) = t[i]]

\* a call that returned v, a call that threw e
Returned(v) == [thrown |-> {}, ret |-> {v}]
Threw(e) == [thrown |-> {e}, ret |-> {}]

\* new Error(`Invalid phone number format: ${phone}`)
InvalidPhoneNumber(phone) ==
    [name |-> "Error", message |-> <<"Invalid phone number format: ">> \o phone]
URIError == [name |-> "URIError", message |-> <<"URI malformed">>]

\* mutant of WaUrl: the phone number is not validated
WaUrlUnchecked(prefix, phone, infix, text) ==
    LET encodedText == encodeURIComponent(sanitizeMessageText(text))
    IN IF encodedText = {}
       THEN Threw(URIError)
       ELSE Returned(<<prefix>> \o phone \o <<infix>>
                       \o (CHOOSE e \in encodedText : TRUE))

\* the body shared by the two URL builders
WaUrl(prefix, phone, infix, text) ==
    IF ~isValidPhoneNumber(phone)
    THEN Threw(InvalidPhoneNumber(phone))
    ELSE LET encodedText == encodeURIComponent(sanitizeMessageText(text))
         IN IF encodedText = {}
            THEN Threw(URIError)
            ELSE Returned(<<prefix>> \o phone \o <<infix>>
                            \o (CHOOSE e \in encodedText : TRUE))

\* generateWaHttpsUrl(phone, text)
generateWaHttpsUrl(phone, text) == WaUrl("https://wa.me/", phone, "?text=", text)

\* generateWaDeepLinkUrl(phone, text)
generateWaDeepLinkUrl(phone, text) ==
    WaUrl("whatsapp://send?phone=", phone, "&text=", text)

\* generateWhatsAppUrls(phone, baseText, cid)
generateWhatsAppUrls(phone, baseText, cid) ==
    LET messageText == buildMessageWithCid(baseText, cid)
        httpsUrl == generateWaHttpsUrl(phone, messageText)
        deepLinkUrl == generateWaDeepLinkUrl(phone, messageText)
    IN IF httpsUrl.thrown # {} THEN httpsUrl
       ELSE IF deepLinkUrl.thrown # {} THEN deepLinkUrl
       ELSE Returned([messageText |-> messageText,
                      httpsUrl |-> CHOOSE u \in httpsUrl.ret : TRUE,
                      deepLinkUrl |-> CHOOSE u \in deepLinkUrl.ret : TRUE])

(***************************************************************************)
(* Request handlers.                                                       *)
(***************************************************************************)
\* mutant of validateAdminToken: an unset ADMIN_TOKEN is compared like a set one
validateAdminTokenUnset(providedToken, e) == providedToken = e.ADMIN_TOKEN

\* validateAdminToken(providedToken)
validateAdminToken(providedToken, e) ==
    IF Falsy(e.ADMIN_TOKEN) THEN FALSE ELSE providedToken = e.ADMIN_TOKEN

\* the X-Admin-Token header a client may send (absent, right, wrong)
ClientTokens == {UNDEF, "secret", "wrong"}

\* "Hi I want to know more about grapevine"
Grapevine ==
    <<"H", "i", " ", "I", " ", "w", "a", "n", "t", " ", "t", "o", " ",
      "k", "n", "o", "w", " ", "m", "o", "r", "e", " ", "a", "b", "o",
      "u", "t", " ", "g", "r", "a", "p", "e", "v", "i", "n", "e">>

\* the slug profiles of lib/config.ts; phoneOverride <<>> is an absent
\* override
SLUG_CONFIGS ==
    [default |-> [slug |-> "default", baseText |-> Grapevine,
                  phoneOverride |-> <<>>, defaultUtmCampaign |-> "x-general"],
     pune |-> [slug |-> "pune", baseText |-> Grapevine,
               phoneOverride |-> <<>>, defaultUtmCampaign |-> "x-pune"],
     chennai |-> [slug |-> "chennai", baseText |-> Grapevine,
                  phoneOverride |-> <<>>, defaultUtmCampaign |-> "x-chennai"]]

\* getSlugConfig(slug) of lib/config.ts
getSlugConfig(slug) ==
    CHOOSE c \in (IF Get(SLUG_CONFIGS, slug) # {} THEN Get(SLUG_CONFIGS, slug)
                  ELSE Get(SLUG_CONFIGS, "default")) : TRUE

\* config/slugs.json as the shared deployments load it at startup: the same
\* profiles, and one whose phoneOverride is not a valid number
LoadedSlugConfigs ==
    [k \in DOMAIN SLUG_CONFIGS \cup {"delhi"} |->
        IF k = "delhi"
        THEN [slug |-> "delhi", baseText |-> Grapevine,
              phoneOverride |-> PhoneLeadingZero, defaultUtmCampaign |-> "x-delhi"]
        ELSE SLUG_CONFIGS[k]]

\* the profile the landing handler of deployment dep gets for slug
SlugConfigOf(dep, slug) ==
    IF dep = "nextlocal" THEN getSlugConfig(slug)
    ELSE CHOOSE c \in getSlugConfigShared({ObjectDoc(LoadedSlugConfigs)}, slug, {}).ret :
            TRUE

\* the text parameter of the query string: absent, short, and as long as the
\* cap on the message
QueryText ==
    [absent |-> {},
     short |-> {<<"H", "i", " ", "T", "a", "l">>},
     long |-> {Repeat("a", MAX_MESSAGE_LENGTH)}]

\* a landing visit as it arrives: the slug of the URL, the clock, and the
\* query parameters and headers
VisitInputs ==
    {[slug |-> "pune", now |-> "T1", query |-> NoParams, text |-> "absent"],
     [slug |-> "unknown", now |-> "T2", query |-> FullParams, text |-> "long"],
     [slug |-> "pune", now |-> "T2", query |-> EmptyParams, text |-> "short"],
     [slug |-> "delhi", now |-> "T1", query |-> NoParams, text |-> "absent"]}

\* the params object the landing handler passes to createClickRecord
VisitParams(in) ==
    [twclid |-> OrUndef(in.query.twclid),
     utm_source |-> OrUndef(in.query.utm_source),
     utm_medium |-> OrUndef(in.query.utm_medium),
     utm_campaign |-> OrUndef(IF Falsy(in.query.utm_campaign)
                              THEN SlugConfigOf(deploy, in.slug).defaultUtmCampaign
                              ELSE in.query.utm_campaign),
     utm_content |-> OrUndef(in.query.utm_content),
     user_agent |-> OrUndef(in.query.user_agent),
     referer |-> OrUndef(in.query.referer),
     ip_hash |-> "sha256"]

\* slugConfig.phoneOverride || envConfig.WHATSAPP_NUMBER
VisitPhone(dep, in, number) ==
    IF SlugConfigOf(dep, in.slug).phoneOverride # <<>>
    THEN SlugConfigOf(dep, in.slug).phoneOverride
    ELSE number

\* textOverride || slugConfig.baseText
VisitBaseText(dep, in) ==
    IF QueryText[in.text] # {} /\ QueryText[in.text] # {<<>>}
    THEN CHOOSE t \in QueryText[in.text] : TRUE
    ELSE SlugConfigOf(dep, in.slug).baseText

\* generateWhatsAppUrls(phoneNumber, baseText, cid) of every landing visit,
\* by deployment, request, WHATSAPP_NUMBER and identifier generated
UrlTable ==
    [k \in Deployments \X VisitInputs \X {PhoneValid, PhoneLeadingZero} \X CidPool |->
        generateWhatsAppUrls(VisitPhone(k[1], k[2], k[3]), VisitBaseText(k[1], k[2]),
                             k[4])] @@ <<>>

\* the composition step of the landing visit in, which generated cid
VisitUrls(in, e, cid) == UrlTable[<<deploy, in, e.WHATSAPP_NUMBER, cid>>]

ErrNullDb == "TypeError: db is null"
ErrInit == "init failed"

\* where the caller of getDatabase() waits after init() has been called
InitPc(kind) ==
    CASE kind = "memory" -> "init_tick"
      [] kind = "sqlite" -> "init_import"
      [] kind = "postgres" -> "init_import"

\* getDatabase() without the `if (dbInstance)` early return: every call
\* constructs an instance
GetDatabaseFresh(r, kind, instances, dbi) ==
    [inst |-> Append(instances, NewInstance(kind)),
     dbInstance |-> Len(instances) + 1,
     proc |-> IF kind \in LocalKinds
              THEN [r EXCEPT !.db = Len(instances) + 1, !.pc = "have_db"]
              ELSE [r EXCEPT !.made = Len(instances) + 1, !.pc = InitPc(kind)]]

\* getDatabase() up to its first await, called by task r: the singleton is
\* returned, or an instance is constructed and stored in dbInstance and
\* (shared package) its init() is called and awaited
GetDatabase(r, kind, instances, dbi) ==
    IF dbi # 0
    THEN [inst |-> instances, dbInstance |-> dbi,
          proc |-> [r EXCEPT !.db = dbi, !.pc = "have_db"]]
    ELSE [inst |-> Append(instances, NewInstance(kind)),
          dbInstance |-> Len(instances) + 1,
          proc |-> IF kind \in LocalKinds
                   THEN [r EXCEPT !.db = Len(instances) + 1, !.pc = "have_db"]
                   ELSE [r EXCEPT !.made = Len(instances) + 1, !.pc = InitPc(kind)]]

\* task p, in state r, calls getDatabase()
CallGetDatabase(p, r) ==
    /\ dbInstance # 0 \/ Len(inst) < MaxInst
    /\ LET g == GetDatabase(r, SelectBackend(deploy, env), inst, dbInstance)
       IN /\ inst' = g.inst
          /\ dbInstance' = g.dbInstance
          /\ procs' = [procs EXCEPT ![p] = g.proc]

\* mutant of VisitFinish: a persistence error escapes the handler
VisitFinishRethrow(r) ==
    IF r.err # OK
    THEN [r EXCEPT !.pc = "thrown", !.status = 500]
    ELSE [r EXCEPT !.pc = "done", !.status = 200]

\* the landing handler from the end of its try block: a persistence error is
\* caught and logged, the page is rendered and sent
VisitFinish(r) ==
    [r EXCEPT !.pc = "done", !.status = 200, !.logged = (r.err # OK)]

\* mutant of LookupFinish: a persistence error is answered as not found
LookupFinishSwallow(r) ==
    [r EXCEPT !.pc = "done",
              !.logged = (r.err # OK),
              !.status = IF r.rows = {} THEN 404 ELSE 200]

\* the lookup handler from the end of its try block
LookupFinish(r) ==
    [r EXCEPT !.pc = "done",
              !.logged = (r.err # OK),
              !.status = IF r.err # OK THEN 500
                         ELSE IF r.rows = {} THEN 404
                         ELSE 200]

\* start(): app.listen(), or process.exit(1) on a failure
StartFinish(r) == [r EXCEPT !.pc = "done", !.logged = (r.err # OK)]

Finish(r) ==
    CASE r.kind = "visit" -> VisitFinish(r)
      [] r.kind = "lookup" -> LookupFinish(r)
      [] r.kind = "start" -> StartFinish(r)

\* the server after task r has finished
ServerAfter(r) ==
    IF r.kind = "start"
    THEN IF r.err = OK THEN "listening" ELSE "exited"
    ELSE server

\* start() of the Express server: await getDatabase() before listening
Start ==
    /\ deploy = "express"
    /\ server = "boot"
    /\ procs[0].pc = "idle"
    /\ CallGetDatabase(0, [IdleProc EXCEPT !.kind = "start"])
    /\ UNCHANGED <<deploy, env, slugConfigCache, disk, memoryStore, memoryIdCounter, h, last, server>>

\* GET /x/:slug up to its first await
VisitStart(p) ==
    /\ server = "listening"
    /\ procs[p].pc = "idle"
    /\ \E in \in VisitInputs, cid \in generateCid :
         LET r == [IdleProc EXCEPT !.kind = "visit", !.cid = cid]
         IN IF env.WHATSAPP_NUMBER = <<>>
            THEN /\ procs' = [procs EXCEPT ![p] = [r EXCEPT !.pc = "done", !.status = 500]]
                 /\ UNCHANGED <<inst, dbInstance>>
            ELSE IF VisitUrls(in, env, cid).thrown # {}
            THEN \* generateWhatsAppUrls throws: the handler sends nothing
                 /\ procs' = [procs EXCEPT ![p] =
                        [r EXCEPT !.pc = "thrown",
                                  !.raised = VisitUrls(in, env, cid).thrown]]
                 /\ UNCHANGED <<inst, dbInstance>>
            ELSE CallGetDatabase(p,
                    [r EXCEPT !.text = in.text,
                              !.click =
                        {createClickRecord(cid, in.slug, in.now, VisitParams(in))}])
    /\ UNCHANGED <<deploy, env, slugConfigCache, disk, memoryStore, memoryIdCounter, h, last, server>>

\* GET /api/click/:cid up to its first await
LookupStart(p) ==
    /\ server = "listening"
    /\ procs[p].pc = "idle"
    /\ \E token \in ClientTokens, cid \in ClientCids :
         LET r == [IdleProc EXCEPT !.kind = "lookup", !.cid = cid,
                                   !.token = OrUndef(token)]
         IN IF ~validateAdminToken(OrUndef(token), env)
            THEN /\ procs' = [procs EXCEPT ![p] = [r EXCEPT !.pc = "done", !.status = 401]]
                 /\ UNCHANGED <<inst, dbInstance>>
            ELSE IF ~isValidCid(cid)
            THEN /\ procs' = [procs EXCEPT ![p] = [r EXCEPT !.pc = "done", !.status = 400]]
                 /\ UNCHANGED <<inst, dbInstance>>
            ELSE CallGetDatabase(p, r)
    /\ UNCHANGED <<deploy, env, slugConfigCache, disk, memoryStore, memoryIdCounter, h, last, server>>

\* the init() awaited by getDatabase() resumes after its dynamic imports:
\* SQLite opens the file and creates the schema, Postgres creates its pool
\* and awaits the connection; either may fail
InitImported(p) ==
    /\ server # "exited"
    /\ procs[p].pc = "init_import"
    /\ LET r == procs[p]
           self == inst[r.made]
       IN \/ /\ self.kind = "sqlite"
             /\ LET o == SqliteInit(self, World)
                IN /\ inst' = [inst EXCEPT ![r.made] = o.self]
                   /\ SetWorld(o.w)
                   /\ procs' = [procs EXCEPT ![p] = [r EXCEPT !.db = dbInstance,
                                                              !.pc = "have_db"]]
                   /\ UNCHANGED server
          \/ /\ self.kind = "sqlite"
             /\ procs' = [procs EXCEPT ![p] = Finish([r EXCEPT !.err = ErrInit])]
             /\ server' = ServerAfter([r EXCEPT !.err = ErrInit])
             /\ UNCHANGED <<inst, disk, memoryStore, memoryIdCounter>>
          \/ /\ self.kind = "postgres"
             /\ inst' = [inst EXCEPT ![r.made] = PostgresInitPool(self)]
             /\ procs' = [procs EXCEPT ![p] = [r EXCEPT !.pc = "init_connect"]]
             /\ UNCHANGED <<server, disk, memoryStore, memoryIdCounter>>
    /\ UNCHANGED <<deploy, env, slugConfigCache, dbInstance, h, last>>

\* PostgresDatabase.init() after pool.connect(): the schema is created, or
\* the connection failed; getDatabase() then returns dbInstance
InitConnected(p) ==
    /\ server # "exited"
    /\ procs[p].pc = "init_connect"
    /\ LET r == procs[p]
           self == inst[r.made]
       IN \/ LET o == PostgresInitSchema(self, World)
             IN /\ inst' = [inst EXCEPT ![r.made] = o.self]
                /\ SetWorld(o.w)
                /\ procs' = [procs EXCEPT ![p] = [r EXCEPT !.db = dbInstance,
                                                           !.pc = "have_db"]]
                /\ UNCHANGED server
          \/ /\ procs' = [procs EXCEPT ![p] = Finish([r EXCEPT !.err = ErrConn])]
             /\ server' = ServerAfter([r EXCEPT !.err = ErrConn])
             /\ UNCHANGED <<inst, disk, memoryStore, memoryIdCounter>>
    /\ UNCHANGED <<deploy, env, slugConfigCache, dbInstance, h, last>>

\* InMemoryDatabase.init() has nothing to do: getDatabase() resumes one tick
\* later and returns dbInstance
InitTick(p) ==
    /\ server # "exited"
    /\ procs[p].pc = "init_tick"
    /\ LET r == procs[p]
           o == InMemoryInit(inst[r.made], World)
       IN /\ inst' = [inst EXCEPT ![r.made] = o.self]
          /\ procs' = [procs EXCEPT ![p] = [r EXCEPT !.db = dbInstance, !.pc = "have_db"]]
    /\ UNCHANGED <<deploy, env, slugConfigCache, dbInstance, disk, memoryStore, memoryIdCounter, h, last,
                   server>>

\* start() resumes with the database: the server listens
StartListen ==
    /\ server # "exited"
    /\ procs[0].pc = "have_db"
    /\ procs' = [procs EXCEPT ![0] = Finish(procs[0])]
    /\ server' = ServerAfter(procs[0])
    /\ UNCHANGED <<deploy, env, slugConfigCache, inst, dbInstance, disk, memoryStore, memoryIdCounter, h, last>>

\* the record a landing visit inserts
ClickOf(r) == CHOOSE c \in r.click : TRUE

\* db.insertClick(clickRecord) of a landing visit, db.getClickByCid(cid) of a
\* lookup, on a class whose methods run without suspending
StoreOp(r, self, w) ==
    IF r.kind = "visit"
    THEN DbInsertClick(self, w, ClickOf(r))
    ELSE DbGetClickByCid(self, w, r.cid)

\* the same call once the Postgres query settles
QueryOp(r, self, w) ==
    IF r.kind = "visit"
    THEN PgInsert(self, w, ClickOf(r))
    ELSE PgSelect(self, w, r.cid)

\* the handler resumes with the result of getDatabase() and calls the store.
\* The in-memory and SQLite classes complete the call at once and the handler
\* finishes; the Postgres classes leave a query in flight.
StoreCall(p) ==
    /\ server # "exited"
    /\ procs[p].pc = "have_db"
    /\ procs[p].kind \in {"visit", "lookup"}
    /\ LET r == procs[p]
       IN IF r.db = 0
          THEN /\ procs' = [procs EXCEPT ![p] = Finish([r EXCEPT !.err = ErrNullDb])]
               /\ UNCHANGED <<inst, disk, memoryStore, memoryIdCounter>>
          ELSE LET self == inst[r.db]
                   rc == [r EXCEPT !.call =
                            [op |-> IF r.kind = "visit" THEN "insertClick"
                                    ELSE "getClickByCid",
                             i |-> r.db, closed |-> self.closed]]
               IN CASE self.kind \in {"memory", "sqlite", "nmemory"} ->
                         /\ r.kind = "visit" => Counter(self, World) <= MaxId
                         /\ LET o == StoreOp(rc, self, World)
                            IN /\ inst' = [inst EXCEPT ![r.db] = o.self]
                               /\ SetWorld(o.w)
                               /\ procs' = [procs EXCEPT ![p] =
                                    Finish([rc EXCEPT !.err = o.res, !.rows = o.rows])]
                    [] self.kind = "postgres" ->
                         /\ procs' = [procs EXCEPT ![p] =
                              IF PoolCheck(self) # OK
                              THEN Finish([rc EXCEPT !.err = PoolCheck(self)])
                              ELSE [rc EXCEPT !.pc = "query"]]
                         /\ UNCHANGED <<inst, disk, memoryStore, memoryIdCounter>>
                    [] self.kind = "npostgres" ->
                         /\ procs' = [procs EXCEPT ![p] =
                              [rc EXCEPT !.pc = IF r.kind = "visit" THEN "local_table"
                                                ELSE "query"]]
                         /\ UNCHANGED <<inst, disk, memoryStore, memoryIdCounter>>
    /\ UNCHANGED <<deploy, env, slugConfigCache, dbInstance, h, last, server>>

\* lib/cid.ts PostgresDatabase.insertClick: CREATE TABLE IF NOT EXISTS settles
LocalTableSettle(p) ==
    /\ server # "exited"
    /\ procs[p].pc = "local_table"
    /\ LET r == procs[p]
       IN \/ /\ SetWorld(PgCreateTable(World))
             /\ procs' = [procs EXCEPT ![p] = [r EXCEPT !.pc = "query"]]
          \/ /\ procs' = [procs EXCEPT ![p] = Finish([r EXCEPT !.err = ErrConn])]
             /\ UNCHANGED <<disk, memoryStore, memoryIdCounter>>
    /\ UNCHANGED <<deploy, env, slugConfigCache, inst, dbInstance, h, last, server>>

\* the INSERT / SELECT in flight settles, or the connection fails, and the
\* handler finishes
QuerySettle(p) ==
    /\ server # "exited"
    /\ procs[p].pc = "query"
    /\ LET r == procs[p]
           self == inst[r.call.i]
       IN \/ /\ r.kind = "visit" => Counter(self, World) <= MaxId
             /\ LET o == QueryOp(r, self, World)
                IN /\ SetWorld(o.w)
                   /\ procs' = [procs EXCEPT ![p] =
                        Finish([r EXCEPT !.err = o.res, !.rows = o.rows])]
          \/ /\ procs' = [procs EXCEPT ![p] = Finish([r EXCEPT !.err = ErrConn])]
             /\ UNCHANGED <<disk, memoryStore, memoryIdCounter>>
    /\ UNCHANGED <<deploy, env, slugConfigCache, inst, dbInstance, h, last, server>>

\* dbInstance.close() up to its first await
CloseBegin(self) ==
    CASE self.kind = "memory" -> InMemoryClose(self, World).self
      [] self.kind = "sqlite" -> SqliteClose(self, World).self
      [] self.kind = "postgres" -> PostgresCloseBegin(self)

\* the rest of close() once pool.end() has settled
CloseEnd(self) ==
    IF self.kind = "postgres" /\ self.handle = "ended"
    THEN PostgresCloseEnd(self)
    ELSE self

\* the server after closeDatabase() has returned: the SIGTERM handler of the
\* Express server exits the process
ServerAfterClose == IF deploy = "express" THEN "exited" ELSE server

\* closeDatabase() up to its first await (SIGTERM on the Express server, a
\* direct call elsewhere): a no-op without a handle
CloseStart(p) ==
    /\ deploy # "nextlocal"
    /\ server # "exited"
    /\ procs[p].pc = "idle"
    /\ LET r == [IdleProc EXCEPT !.kind = "close"]
       IN IF dbInstance = 0
          THEN /\ procs' = [procs EXCEPT ![p] = [r EXCEPT !.pc = "done"]]
               /\ server' = ServerAfterClose
               /\ UNCHANGED inst
          ELSE /\ inst' = [inst EXCEPT ![dbInstance] = CloseBegin(@)]
               /\ procs' = [procs EXCEPT ![p] = [r EXCEPT !.db = dbInstance,
                                                          !.pc = "closing"]]
               /\ UNCHANGED server
    /\ UNCHANGED <<deploy, env, slugConfigCache, dbInstance, disk, memoryStore, memoryIdCounter, h, last>>

\* closeDatabase() resumes after close(): dbInstance = null
CloseResume(p) ==
    /\ server # "exited"
    /\ procs[p].pc = "closing"
    /\ inst' = [inst EXCEPT ![procs[p].db] = CloseEnd(@)]
    /\ dbInstance' = 0
    /\ procs' = [procs EXCEPT ![p] = [@ EXCEPT !.pc = "done"]]
    /\ server' = ServerAfterClose
    /\ UNCHANGED <<deploy, env, slugConfigCache, disk, memoryStore, memoryIdCounter, h, last>>

Next ==
    \/ Start
    \/ StartListen
    \/ \E p \in Tasks : InitImported(p)
    \/ \E p \in Tasks : InitConnected(p)
    \/ \E p \in Tasks : InitTick(p)
    \/ \E p \in Procs : VisitStart(p)
    \/ \E p \in Procs : LookupStart(p)
    \/ \E p \in Procs : StoreCall(p)
    \/ \E p \in Procs : LocalTableSettle(p)
    \/ \E p \in Procs : QuerySettle(p)
    \/ \E p \in Procs : CloseStart(p)
    \/ \E p \in Procs : CloseResume(p)

\* the server: start(), concurrent requests, shutdown
Spec == Init /\ [][Next]_vars

(***************************************************************************)
(* Properties of the request handlers (checked under Spec).                *)
(***************************************************************************)
Visits == {p \in Procs : procs[p].kind = "visit"}
Lookups == {p \in Procs : procs[p].kind = "lookup"}

\* the pcs at which a handler is suspended on a store query in flight
QueryPcs == {"query", "local_table"}

\* the persistence errors a landing visit can meet
PersistenceErrors == Errors \cup {ErrInit, ErrNullDb}

\* C5: a landing visit with a valid number whose persistence step fails
\* (getDatabase() or insertClick() rejecting) has caught and logged the error
\* and returned the page with status 200.
VisitSurvivesPersistenceFailure ==
    \A p \in Visits :
        /\ procs[p].err # OK =>
             (procs[p].pc = "done" /\ procs[p].logged /\ procs[p].status = 200)
        /\ (procs[p].click # {} /\ procs[p].pc \in {"done", "thrown"}) =>
             (procs[p].pc = "done" /\ procs[p].status = 200)

\* C5 witness: a visit met a persistence error and answered 200
VisitSurvivesWitness ==
    \E p \in Visits :
        /\ procs[p].err \in PersistenceErrors
        /\ procs[p].logged
        /\ procs[p].status = 200

\* C6: the landing visit does not wait for the persistence write: it is never
\* suspended on the write with its response still unsent.
VisitNeverAwaitsWrite ==
    \A p \in Visits : ~(procs[p].pc \in QueryPcs /\ procs[p].status = 0)

\* an identifier of exactly 10 characters of the 62-symbol alphabet
WellFormedCid(cid) ==
    /\ Len(cid) = 10
    /\ \A i \in 1..Len(cid) : cid[i] \in Digits \cup Upper \cup Lower

\* C7: a lookup with a malformed identifier is answered 400 (or 401) by the
\* handler without getDatabase() or getClickByCid() being called.
LookupValidatesBeforeStore ==
    \A p \in Lookups :
        ~WellFormedCid(procs[p].cid) =>
            /\ procs[p].call.op = "none"
            /\ procs[p].db = 0
            /\ procs[p].made = 0
            /\ procs[p].pc = "done"
            /\ procs[p].status \in {400, 401}

\* C7 witness: an authorised lookup with a malformed identifier got 400
LookupValidatesWitness ==
    \E p \in Lookups : ~WellFormedCid(procs[p].cid) /\ procs[p].status = 400

\* row holds every field of the record a visit inserted
SameRecord(row, click) == \A f \in ClickFields : row[f] = click[f]

\* the visits whose insertClick has succeeded
Inserted == {p \in Visits : procs[p].call.op = "insertClick"
                            /\ procs[p].pc = "done" /\ procs[p].err = OK}

\* C8: with concurrent visits and lookups on the singleton store, once no
\* insert is in flight every identifier inserted by exactly one visit maps,
\* in a store that has not been closed, to the record of that visit; and
\* every lookup that returned gave null or one complete inserted record.
NoCorruption ==
    /\ (\A q \in Visits : procs[q].pc \in {"done", "thrown"}) =>
         \A p \in Inserted :
            (/\ \A q \in Visits \ {p} : procs[q].cid # procs[p].cid
             /\ ~inst[procs[p].call.i].closed) =>
                LET got == Lookup(View(inst[procs[p].call.i], World), procs[p].cid)
                IN /\ Cardinality(got) = 1
                   /\ \A row \in got : SameRecord(row, ClickOf(procs[p]))
    /\ \A p \in Lookups :
         (procs[p].pc = "done" /\ procs[p].err = OK
             /\ procs[p].call.op = "getClickByCid") =>
            /\ Cardinality(procs[p].rows) <= 1
            /\ procs[p].status = IF procs[p].rows = {} THEN 404 ELSE 200
            /\ \A row \in procs[p].rows :
                 /\ row.cid = procs[p].cid
                 /\ \E q \in Visits :
                      /\ procs[q].call.op = "insertClick"
                      /\ SameRecord(row, ClickOf(procs[q]))

\* C8 witness: two visits have inserted distinct identifiers into a store
\* that is still open
NoCorruptionWitness ==
    \E p \in Inserted, q \in Inserted :
        /\ procs[p].cid # procs[q].cid
        /\ procs[p].call.i = procs[q].call.i
        /\ ~inst[procs[p].call.i].closed

\* C9: no insertClick or getClickByCid is executed on an instance on which
\* close() has been called (no instance is ever initialised again).
NoUseAfterClose ==
    \A p \in Procs : procs[p].call.op # "none" => ~procs[p].call.closed

(***************************************************************************)
(* Backend selection.                                                      *)
(***************************************************************************)
\* the backend the configuration calls for: relational with a connection
\* string, else in-memory in test mode, else file-backed
BackendFor(e) ==
    IF e.DATABASE_URL # UNDEF THEN "relational"
    ELSE IF e.NODE_ENV = "test" THEN "ephemeral"
    ELSE "file"

\* the backend an instance of the given class is
BackendOf(kind) ==
    CASE kind \in {"postgres", "npostgres"} -> "relational"
      [] kind \in {"memory", "nmemory"} -> "ephemeral"
      [] kind = "sqlite" -> "file"

\* C11: every store instance getDatabase() constructs is of the backend the
\* configuration calls for (connection string: relational, also in test
\* mode; else test mode: in-memory; else file-backed).
BackendSelectedByConfig ==
    \A i \in Instances : BackendOf(inst[i].kind) = BackendFor(env)

(***************************************************************************)
(* The configuration functions called in any order.                        *)
(***************************************************************************)
CfgSlugs == {"default", "pune", "unknown", "", "constructor"}

\* the optional second argument of getSlugConfig
CfgConfigs == {{}} \cup {{ObjectDoc(m)} : m \in GoodMaps}

CfgCall(op, arg, before, o) ==
    [op |-> op, arg |-> arg, before |-> before, ret |-> o.ret,
     thrown |-> o.thrown, logged |-> o.logged]

InitConfig ==
    /\ deploy \in {"express", "next"}
    /\ env \in HealthEnvs
    /\ Fresh

CfgUnchanged ==
    UNCHANGED <<deploy, env, inst, dbInstance, disk, memoryStore, memoryIdCounter,
                h, server, procs>>

CfgLoad ==
    /\ \E arg \in LoadArgs :
         LET o == loadSlugConfigs(slugConfigCache, arg)
         IN /\ slugConfigCache' = o.cache
            /\ last' = CfgCall("loadSlugConfigs", arg, slugConfigCache, o)
    /\ CfgUnchanged

CfgGet ==
    /\ \E slug \in CfgSlugs, configs \in CfgConfigs :
         LET o == getSlugConfigShared(slugConfigCache, slug, configs)
         IN /\ slugConfigCache' = o.cache
            /\ last' = CfgCall("getSlugConfig", [slug |-> slug, configs |-> configs],
                               slugConfigCache, o)
    /\ CfgUnchanged

CfgClear ==
    /\ LET o == clearConfigCache(slugConfigCache)
       IN /\ slugConfigCache' = o.cache
          /\ last' = CfgCall("clearConfigCache", {}, slugConfigCache, o)
    /\ CfgUnchanged

Healthz ==
    /\ server = "listening" \/ deploy = "express"
    /\ last' = [op |-> "healthz", res |-> healthz(env)]
    /\ UNCHANGED slugConfigCache
    /\ CfgUnchanged

NextConfig ==
    \/ CfgLoad
    \/ CfgGet
    \/ CfgClear
    \/ Healthz

\* the configuration module under any sequence of calls
ConfigSpec == InitConfig /\ [][NextConfig]_vars

\* the cache holds a map
Populated(cache) == \E d \in cache : d.t = "object"

\* C12: once the cache holds a map, loadSlugConfigs returns that map and
\* leaves the cache as it is, whatever its argument; and no call but
\* clearConfigCache changes a populated cache.
ConfigCachedOnce ==
    /\ (last.op = "loadSlugConfigs" /\ Populated(last.before)) =>
          (last.ret = last.before /\ slugConfigCache = last.before)
    /\ (last.op \in {"loadSlugConfigs", "getSlugConfig"} /\ Populated(last.before)) =>
          slugConfigCache = last.before

\* C12 witness: loadSlugConfigs was called with a well-formed map other than
\* the cached one
ConfigCachedOnceWitness ==
    /\ last.op = "loadSlugConfigs"
    /\ Populated(last.before)
    /\ last.arg.doc # {}
    /\ last.arg.doc # last.before
    /\ \A d \in last.arg.doc : d.t = "object" /\ d.m \in GoodMaps

\* the classes of argument the fallback is specified for
ArgIsAbsent(arg) == arg.is = "undefined" \/ (arg.is = "string" /\ arg.empty)
ArgIsUnparsable(arg) == arg.is = "string" /\ ~arg.empty /\ arg.doc = {}
ArgIsBadMap(arg) ==
    \E d \in arg.doc :
        /\ d.t = "object"
        /\ \E k \in DOMAIN d.m : d.m[k].slug \in {UNDEF, EMPTY, NULL}
                                 \/ d.m[k].baseText \in {UNDEF, EMPTY, NULL}
ArgIsGoodMap(arg) ==
    \E d \in arg.doc :
        /\ d.t = "object"
        /\ \A k \in DOMAIN d.m : d.m[k].slug \notin {UNDEF, EMPTY, NULL}
                                 /\ d.m[k].baseText \notin {UNDEF, EMPTY, NULL}

\* C13: with an empty cache loadSlugConfigs does not throw; absent input,
\* unparsable JSON and a map with an entry lacking slug or baseText give, and
\* cache, the map holding only the built-in default profile; a well-formed
\* map is returned itself.
LoadFallsBackToDefault ==
    (last.op = "loadSlugConfigs" /\ last.before = {}) =>
        /\ ~last.thrown
        /\ (ArgIsAbsent(last.arg) \/ ArgIsUnparsable(last.arg) \/ ArgIsBadMap(last.arg))
              => (last.ret = {DefaultMap} /\ slugConfigCache = {DefaultMap})
        /\ ArgIsGoodMap(last.arg) => last.ret = last.arg.doc

\* C13 witness: a map with a defective entry was given with the cache empty
LoadFallsBackWitness ==
    /\ last.op = "loadSlugConfigs"
    /\ last.before = {}
    /\ ArgIsBadMap(last.arg)
    /\ last.ret = {DefaultMap}

\* C15: the health endpoint answers healthy/200 without warnings when
\* WHATSAPP_NUMBER is set and is 7 to 15 digits not starting with 0, and
\* degraded/503 with the validation errors as warnings otherwise.
HealthReflectsConfig ==
    last.op = "healthz" =>
        IF env.WHATSAPP_NUMBER # <<>> /\ isValidPhoneNumber(env.WHATSAPP_NUMBER)
        THEN last.res = [code |-> 200, status |-> "healthy", warnings |-> {}]
        ELSE /\ last.res.code = 503
             /\ last.res.status = "degraded"
             /\ last.res.warnings \in {{<<ErrRequired>>}, {<<ErrFormat>>}}
             /\ (last.res.warnings = {<<ErrRequired>>}) = (env.WHATSAPP_NUMBER = <<>>)

\* C15 witness: the endpoint answered degraded for a malformed number
HealthDegradedWitness ==
    /\ last.op = "healthz"
    /\ env.WHATSAPP_NUMBER # <<>>
    /\ last.res.code = 503

\* C14: an authorised lookup with a well-formed identifier answers 500 when
\* getDatabase() or getClickByCid() rejected, 200 with the record when one
\* was found, and 404 when none was.
LookupSurfacesErrors ==
    \A p \in Lookups :
        (procs[p].pc = "done" /\ WellFormedCid(procs[p].cid) /\ procs[p].status # 401) =>
            /\ procs[p].err # OK =>
                 (procs[p].status = 500 /\ procs[p].logged /\ procs[p].rows = {})
            /\ procs[p].err = OK =>
                 /\ procs[p].call.op = "getClickByCid"
                 /\ procs[p].status = IF procs[p].rows = {} THEN 404 ELSE 200

\* C14 witness: a lookup met a persistence error and answered 500
LookupSurfacesWitness ==
    \E p \in Lookups :
        /\ procs[p].err \in PersistenceErrors
        /\ procs[p].status = 500

(***************************************************************************)
(* The identifier generators.                                              *)
(***************************************************************************)
\* BASE62_ALPHABET as the string it is, indexed from 1
Base62String ==
    <<"0", "1", "2", "3", "4", "5", "6", "7", "8", "9",
      "A", "B", "C", "D", "E", "F", "G", "H", "I", "J", "K", "L", "M",
      "N", "O", "P", "Q", "R", "S", "T", "U", "V", "W", "X", "Y", "Z",
      "a", "b", "c", "d", "e", "f", "g", "h", "i", "j", "k", "l", "m",
      "n", "o", "p", "q", "r", "s", "t", "u", "v", "w", "x", "y", "z">>

\* the 64-symbol alphabet nanoid uses by default
UrlAlphabetString == Base62String \o <<"-", "_">>

\* mutant of randomBase62: the byte indexes the 64-symbol alphabet
randomUrlAlphabet(bytes, length) ==
    [i \in 1..length |-> UrlAlphabetString[(bytes[i] % 64) + 1]]

\* lib/cid.ts randomBase62(length), bytes being crypto.randomBytes(length)
randomBase62(bytes, length) ==
    [i \in 1..length |-> Base62String[(bytes[i] % Len(Base62String)) + 1]]

\* a byte that customAlphabet keeps: (byte & 63) indexes the alphabet
Kept(b) == (b % 64) < Len(Base62String)

\* nanoid customAlphabet(BASE62_ALPHABET, 10)() on the bytes drawn: the first
\* 10 kept bytes give the identifier; {} while more bytes are needed
customAlphabet(bytes, size) ==
    LET kept == SelectSeq(bytes, Kept)
    IN IF Len(kept) >= size
       THEN {[i \in 1..size |-> Base62String[(kept[i] % 64) + 1]]}
       ELSE {}

\* Math.min(a, b)
Min(a, b) == IF a < b THEN a ELSE b

\* mutant of generateCidWithPrefix: the prefix is not cut to 3 characters
generateCidWithPrefixUncut(prefix, bytes) ==
    LET suffix == customAlphabet(bytes, CID_LENGTH - Min(Len(prefix), 3))
    IN {slice(prefix \o s, CID_LENGTH) : s \in suffix}

\* generateCidWithPrefix(prefix) on the bytes drawn; {} while more bytes are
\* needed
generateCidWithPrefix(prefix, bytes) ==
    LET suffix == customAlphabet(bytes, CID_LENGTH - Min(Len(prefix), 3))
    IN {slice(slice(prefix, 3) \o s, CID_LENGTH) : s \in suffix}

(***************************************************************************)
(* The library functions called with sample arguments.                     *)
(***************************************************************************)
Emoji == <<HI, LO>>

\* texts: empty, plain, padded, with null bytes next to the padding, with
\* reserved characters, with an emoji, with half an emoji, and around the cap
TextSamples ==
    {<<>>, <<"H", "i">>, <<" ", "H", "i", "\n">>, <<"H", "i", " ", "T", "a", "l">>,
     <<NUL, " ", "H", "i">>, <<"H", "i", " ", NUL>>, <<"H", NUL, "i">>,
     <<"a", "&", "b", "=", "%", "?">>, <<"H", "i", "!">> \o Emoji, <<"H", "i", HI>>,
     Repeat("a", MAX_MESSAGE_LENGTH - 17), Repeat("a", MAX_MESSAGE_LENGTH - 16),
     Repeat("a", MAX_MESSAGE_LENGTH - 15), Repeat("a", MAX_MESSAGE_LENGTH),
     Repeat("a", MAX_MESSAGE_LENGTH + 1000),
     Repeat("a", MAX_MESSAGE_LENGTH - 1) \o <<" ", "b">>,
     Repeat("a", MAX_MESSAGE_LENGTH - 1) \o Emoji}

\* the argument of isValidCid: {} is null / undefined
CandidateSamples ==
    {{}} \cup {{c} : c \in ClientCids \cup
                 {Repeat("0", 10), Repeat("z", 10), Repeat("Z", 9), Repeat("a", 11),
                  Repeat("a", 9) \o <<" ">>, Repeat("a", 9) \o <<"\n">>,
                  Repeat("a", 8) \o Emoji}}

\* what crypto.randomBytes may return: every byte value, and a mixture
ByteSamples ==
    {Repeat(b, 17) : b \in 0..255}
      \cup {[i \in 1..17 |-> (i * 37) % 256], [i \in 1..17 |-> 255 - i],
            [i \in 1..17 |-> IF i < 8 THEN 63 ELSE 61]}

\* prefixes: empty, shorter than 3, exactly 3, longer than 3, with characters
\* outside the alphabet before and after the third
PrefixSamples ==
    {<<>>, <<"X">>, <<"T", "S">>, <<"T", "S", "T">>,
     <<"T", "O", "O", "L", "O", "N", "G">>, <<"a", "-">>,
     <<"T", "S", "T", "-", "x">>, <<"A", "B">> \o Emoji,
     Repeat("p", CID_LENGTH + 2)}

LibCall(op, args, o) == [op |-> op, args |-> args, thrown |-> o.thrown, ret |-> o.ret]

\* a call about to be made
Pending(fn, args) == [op |-> "pending", fn |-> fn, args |-> args]

\* the calls of the message composer
ComposerInputs ==
    {Pending("sanitizeMessageText", <<text>>) : text \in TextSamples}
      \cup {Pending(fn, <<phone, text>>) :
              fn \in {"generateWaHttpsUrl", "generateWaDeepLinkUrl"},
              phone \in NumberSamples, text \in TextSamples}
      \cup {Pending("generateWhatsAppUrls", <<phone, baseText, cid>>) :
              phone \in NumberSamples, baseText \in TextSamples, cid \in CidPool}

\* the calls of the identifier codec
ValidatorInputs ==
    {Pending("isValidCid", <<candidate>>) : candidate \in CandidateSamples}

GeneratorInputs ==
    {Pending("generateCid", <<from, bytes>>) :
        from \in {"lib/cid.ts", "shared"}, bytes \in ByteSamples}

\* phone numbers: those of NumberSamples, and 7 digits followed by a line
\* break, with a blank inside, with a digit that is not ASCII
PhoneSamples ==
    NumberSamples
      \cup {Repeat("7", 7) \o <<"\n">>, <<"1", "2", "3", " ", "5", "6", "7", "8">>,
            Repeat("7", 6) \o <<"\\u0663">>, Repeat("0", 7), Repeat("5", 8),
            Repeat("1", 14), <<"-">> \o Repeat("1", 7)}

PhoneInputs ==
    {Pending("isValidPhoneNumber", <<phone>>) : phone \in PhoneSamples}

PrefixInputs ==
    {Pending("generateCidWithPrefix", <<prefix, bytes>>) :
        prefix \in PrefixSamples, bytes \in ByteSamples}

InitLib ==
    /\ deploy = "next"
    /\ env = [DATABASE_URL |-> UNDEF, NODE_ENV |-> "test",
              WHATSAPP_NUMBER |-> PhoneValid, ADMIN_TOKEN |-> "secret"]
    /\ server = "listening"
    /\ procs = [p \in Tasks |-> IdleProc]
    /\ inst = <<>>
    /\ dbInstance = 0
    /\ disk = [table |-> FALSE, rows |-> EmptyMap, seq |-> 1]
    /\ memoryStore = EmptyMap
    /\ memoryIdCounter = 1
    /\ h = 0
    /\ slugConfigCache = {}
    /\ \/ last \in ComposerInputs
       \/ last \in ValidatorInputs
       \/ last \in GeneratorInputs
       \/ last \in PrefixInputs
       \/ last \in PhoneInputs

LibUnchanged ==
    UNCHANGED <<deploy, env, inst, dbInstance, disk, memoryStore, memoryIdCounter,
                h, server, procs, slugConfigCache>>

\* the pending call of fn is made
IsPending(fn) == last.op = "pending" /\ last.fn = fn

CallSanitizeMessageText ==
    /\ IsPending("sanitizeMessageText")
    /\ last' = LibCall(last.fn, last.args, Returned(sanitizeMessageText(last.args[1])))
    /\ LibUnchanged

CallGenerateWaHttpsUrl ==
    /\ IsPending("generateWaHttpsUrl")
    /\ last' = LibCall(last.fn, last.args, generateWaHttpsUrl(last.args[1], last.args[2]))
    /\ LibUnchanged

CallGenerateWaDeepLinkUrl ==
    /\ IsPending("generateWaDeepLinkUrl")
    /\ last' = LibCall(last.fn, last.args,
                       generateWaDeepLinkUrl(last.args[1], last.args[2]))
    /\ LibUnchanged

CallGenerateWhatsAppUrls ==
    /\ IsPending("generateWhatsAppUrls")
    /\ last' = LibCall(last.fn, last.args,
                       generateWhatsAppUrls(last.args[1], last.args[2], last.args[3]))
    /\ LibUnchanged

\* isValidCid(cid): !cid covers null and undefined
CallIsValidCid ==
    /\ IsPending("isValidCid")
    /\ last' = LibCall(last.fn, last.args,
                       Returned(last.args[1] # {}
                                /\ \A c \in last.args[1] : isValidCid(c)))
    /\ LibUnchanged

CallGenerateCidLocal ==
    /\ IsPending("generateCid")
    /\ last.args[1] = "lib/cid.ts"
    /\ last' = LibCall(last.fn, last.args,
                       Returned(randomBase62(last.args[2], CID_LENGTH)))
    /\ LibUnchanged

\* the shared generateCid returns once the bytes drawn give 10 characters
CallGenerateCidShared ==
    /\ IsPending("generateCid")
    /\ last.args[1] = "shared"
    /\ customAlphabet(last.args[2], CID_LENGTH) # {}
    /\ last' = LibCall(last.fn, last.args,
                       [thrown |-> {}, ret |-> customAlphabet(last.args[2], CID_LENGTH)])
    /\ LibUnchanged

\* generateCidWithPrefix returns once the bytes drawn give the suffix
CallGenerateCidWithPrefix ==
    /\ IsPending("generateCidWithPrefix")
    /\ generateCidWithPrefix(last.args[1], last.args[2]) # {}
    /\ last' = LibCall(last.fn, last.args,
                       [thrown |-> {},
                        ret |-> generateCidWithPrefix(last.args[1], last.args[2])])
    /\ LibUnchanged

CallIsValidPhoneNumber ==
    /\ IsPending("isValidPhoneNumber")
    /\ last' = LibCall(last.fn, last.args, Returned(isValidPhoneNumber(last.args[1])))
    /\ LibUnchanged

NextLib ==
    \/ CallSanitizeMessageText
    \/ CallGenerateWaHttpsUrl
    \/ CallGenerateWaDeepLinkUrl
    \/ CallGenerateWhatsAppUrls
    \/ CallIsValidCid
    \/ CallGenerateCidLocal
    \/ CallGenerateCidShared
    \/ CallGenerateCidWithPrefix
    \/ CallIsValidPhoneNumber

\* the pure functions of the identifier codec and the message composer
LibSpec == InitLib /\ [][NextLib]_vars

(***************************************************************************)
(* Properties of the library functions (checked under LibSpec).            *)
(***************************************************************************)
\* C16: sanitizeMessageText is idempotent: sanitizing its result again gives
\* the same text.
SanitizeIdempotent ==
    last.op = "sanitizeMessageText" =>
        \A r \in last.ret : sanitizeMessageText(r) = r

\* the text parameter of a URL: what follows "text="
TextParam(url) ==
    LET i == CHOOSE k \in 1..Len(url) : url[k] \in {"?text=", "&text="}
    IN SubSeq(url, i + 1, Len(url))

\* C17: for a valid phone generateWhatsAppUrls returns two URLs whose text
\* parameters are equal and decode to the returned messageText, which is the
\* sanitized base text followed by the whole suffix " (cid:<cid>)".
UrlsCarryMessage ==
    (last.op = "generateWhatsAppUrls" /\ isValidPhoneNumber(last.args[1])) =>
        /\ last.ret # {}
        /\ \A r \in last.ret :
             /\ TextParam(r.httpsUrl) = TextParam(r.deepLinkUrl)
             /\ decodeURIComponent(TextParam(r.httpsUrl)) = r.messageText
             /\ r.messageText = sanitizeMessageText(last.args[2]) \o CidSuffix(last.args[3])

\* C18: the URL builders throw exactly when the phone is invalid, and then
\* the invalid-phone error carrying the phone; for a valid phone they return
\* a URL whatever the text.
OnlyInvalidPhoneRaised ==
    last.op \in {"generateWaHttpsUrl", "generateWaDeepLinkUrl", "generateWhatsAppUrls"} =>
        IF isValidPhoneNumber(last.args[1])
        THEN last.thrown = {} /\ last.ret # {}
        ELSE last.thrown = {InvalidPhoneNumber(last.args[1])} /\ last.ret = {}

\* C19: isValidCid returns true exactly for a candidate of 10 characters all
\* among 0-9, A-Z, a-z, and false, without throwing, for null, the empty
\* string, other lengths and other characters.
IsValidCidExact ==
    last.op = "isValidCid" =>
        /\ last.thrown = {}
        /\ last.ret = {last.args[1] # {} /\ \A c \in last.args[1] : WellFormedCid(c)}

\* C19 witness: a candidate longer than 10 characters was rejected
IsValidCidWitness ==
    /\ last.op = "isValidCid"
    /\ last.ret = {FALSE}
    /\ \E c \in last.args[1] : Len(c) > 10

\* C20: every identifier either generator returns has 10 characters of the
\* 62-symbol alphabet and is accepted by isValidCid.
GeneratedCidValid ==
    last.op = "generateCid" =>
        /\ last.ret # {}
        /\ \A r \in last.ret :
             /\ Len(r) = 10
             /\ \A i \in 1..Len(r) : r[i] \in Digits \cup Upper \cup Lower
             /\ isValidCid(r)

\* C20 witness: the local generator returned for bytes beyond the alphabet
GeneratedCidWitness ==
    /\ last.op = "generateCid"
    /\ last.args[1] = "lib/cid.ts"
    /\ last.args[2][1] = 255
    /\ last.ret # {}

\* C21: for every prefix generateCidWithPrefix returns a string of exactly 10
\* characters whose first min(3, length of prefix) characters are those of
\* the prefix and whose other characters are in the 62-symbol alphabet; when
\* those prefix characters are in the alphabet too, isValidCid accepts it.
PrefixedCidShape ==
    last.op = "generateCidWithPrefix" =>
        LET prefix == last.args[1]
            n == IF Len(prefix) < 3 THEN Len(prefix) ELSE 3
        IN /\ last.thrown = {}
           /\ \A r \in last.ret :
                /\ Len(r) = 10
                /\ \A i \in 1..n : r[i] = prefix[i]
                /\ \A i \in (n + 1)..10 : r[i] \in Digits \cup Upper \cup Lower
                /\ (\A i \in 1..n : prefix[i] \in Digits \cup Upper \cup Lower)
                      => isValidCid(r)

\* C21 witness: a prefix longer than 3 characters was cut to its first three
PrefixedCidWitness ==
    /\ last.op = "generateCidWithPrefix"
    /\ Len(last.args[1]) > 3
    /\ \E r \in last.ret : Len(r) = 10 /\ r[3] = last.args[1][3]

\* 7 to 15 decimal digits, the first of them 1-9
E164Digits(phone) ==
    /\ Len(phone) \in 7..15
    /\ \A i \in 1..Len(phone) :
          phone[i] \in {"0", "1", "2", "3", "4", "5", "6", "7", "8", "9"}
    /\ phone[1] # "0"

\* C22: isValidPhoneNumber is true exactly for 7 to 15 decimal digits whose
\* first is 1-9, and the URL builders and the environment validation accept
\* exactly the numbers it accepts.
PhoneRuleShared ==
    last.op = "isValidPhoneNumber" =>
        LET phone == last.args[1]
        IN /\ last.thrown = {}
           /\ last.ret = {E164Digits(phone)}
           /\ (generateWaHttpsUrl(phone, <<"H", "i">>).thrown = {}) = E164Digits(phone)
           /\ (generateWaDeepLinkUrl(phone, <<"H", "i">>).thrown = {}) = E164Digits(phone)
           /\ (generateWhatsAppUrls(phone, <<"H", "i">>, CidA).thrown = {})
                 = E164Digits(phone)
           /\ (validateEnvConfig([WHATSAPP_NUMBER |-> phone]) = <<>>) = E164Digits(phone)

\* C22 witness: 7 digits followed by a line break were rejected
PhoneRuleWitness ==
    /\ last.op = "isValidPhoneNumber"
    /\ Len(last.args[1]) = 8
    /\ last.args[1][8] = "\n"
    /\ last.ret = {FALSE}

(***************************************************************************)
(* Row numbers of the ephemeral backend (checked under StoreSpec).         *)
(***************************************************************************)
EphemeralKinds == {"memory", "nmemory"}

\* the row numbers of the records instance self holds
RowNumbers(self, w) == {View(self, w)[c].id : c \in DOMAIN View(self, w)}

\* C23: in the ephemeral backend every record an insertClick stores gets the
\* value of the counter, which is greater than every row number held and
\* never decreases, also across close(); so no two records held share a row
\* number.
RowNumberMonotonic ==
    /\ [](\A i \in Instances : inst[i].kind \in EphemeralKinds =>
            /\ \A n \in RowNumbers(inst[i], World) : n < Counter(inst[i], World)
            /\ Cardinality(RowNumbers(inst[i], World))
                  = Cardinality(DOMAIN View(inst[i], World)))
    /\ [][\A i \in Instances : inst[i].kind \in EphemeralKinds =>
            /\ Counter(inst'[i], World') >= Counter(inst[i], World)
            /\ \A c \in DOMAIN View(inst'[i], World') :
                  Lookup(View(inst[i], World), c) # {View(inst'[i], World')[c]} =>
                     /\ View(inst'[i], World')[c].id = Counter(inst[i], World)
                     /\ Counter(inst'[i], World') > Counter(inst[i], World)]_vars

\* C23 witness: an instance that was closed holds one record, numbered 2: it
\* was inserted after close() and did not get the number 1 again
RowNumberWitness ==
    \E i \in Instances :
        /\ inst[i].kind = "memory"
        /\ inst[i].closed
        /\ RowNumbers(inst[i], World) = {2}

(***************************************************************************)
(* Slug lookup (checked under ConfigSpec).                                 *)
(***************************************************************************)
\* the map a getSlugConfig call looks the slug up in: the one passed, else
\* the cached one, else the one holding the built-in default profile
MapInEffect(call) ==
    IF call.arg.configs # {} THEN call.arg.configs
    ELSE IF \E d \in call.before : Truthy(d) THEN call.before
    ELSE {DefaultMap}

\* C24: getSlugConfig(slug) returns the profile stored under that slug when
\* there is one, else the profile stored under "default", else the built-in
\* default profile; it does not throw and returns a profile for every slug.
SlugFallbackChain ==
    last.op = "getSlugConfig" =>
        /\ ~last.thrown
        /\ \A d \in MapInEffect(last) :
              last.ret = {IF last.arg.slug \in DOMAIN d.m THEN d.m[last.arg.slug]
                          ELSE IF "default" \in DOMAIN d.m THEN d.m["default"]
                          ELSE DEFAULT_SLUG_CONFIG}

(***************************************************************************)
(* Validation before persistence (checked under Spec).                     *)
(***************************************************************************)
\* the state of the stores and of the singleton handle
storage == <<inst, dbInstance, disk, memoryStore, memoryIdCounter>>

\* the request of a visit that passed the composition step
RequestOf(r) ==
    CHOOSE in \in VisitInputs :
        /\ in.slug = ClickOf(r).slug
        /\ in.now = ClickOf(r).created_at
        /\ in.text = r.text

\* task p has called neither getDatabase() nor a method of the store
NoStoreAccess(p) ==
    /\ procs[p].call.op = "none"
    /\ procs[p].db = 0
    /\ procs[p].made = 0
    /\ procs[p].rows = {}

\* C25: a landing visit whose composition raised the invalid-phone error
\* (WHATSAPP_NUMBER or the slug's phoneOverride invalid), or that was
\* rejected because WHATSAPP_NUMBER is unset, has built no click record and
\* made no getDatabase()/insertClick call, and the step that rejected it left
\* the stores unchanged; every visit that reached persistence had a valid
\* number.
VisitRejectedBeforePersistence ==
    /\ [](\A p \in Visits :
            /\ (procs[p].raised # {} \/ procs[p].status = 500) =>
                  (NoStoreAccess(p) /\ procs[p].click = {})
            /\ env.WHATSAPP_NUMBER = <<>> =>
                  (procs[p].status = 500 /\ procs[p].pc = "done")
            /\ (env.WHATSAPP_NUMBER # <<>> /\ procs[p].click = {}) =>
                  \E number \in NumberSamples :
                     /\ ~isValidPhoneNumber(number)
                     /\ procs[p].raised = {InvalidPhoneNumber(number)}
            /\ procs[p].click # {} =>
                  /\ procs[p].raised = {}
                  /\ isValidPhoneNumber(
                        VisitPhone(deploy, RequestOf(procs[p]), env.WHATSAPP_NUMBER)))
    /\ [][\A p \in Procs :
            (procs[p].pc = "idle" /\ procs'[p].kind = "visit" /\ procs'[p].click = {})
                => UNCHANGED storage]_vars

\* C25 witness: with a valid WHATSAPP_NUMBER, a visit to a slug whose
\* phoneOverride is invalid raised the error while another visit had stored
\* its record
VisitRejectedWitness ==
    \E p \in Visits, q \in Inserted :
        /\ isValidPhoneNumber(env.WHATSAPP_NUMBER)
        /\ procs[p].raised = {InvalidPhoneNumber(PhoneLeadingZero)}
        /\ procs[p].pc = "thrown"

\* C26: a lookup whose X-Admin-Token is absent or differs from ADMIN_TOKEN,
\* and every lookup when ADMIN_TOKEN is not configured, is answered 401
\* without getDatabase() or getClickByCid() being called, whatever the
\* identifier, and the step that answers leaves the stores unchanged.
LookupRequiresToken ==
    /\ [](\A p \in Lookups :
            (env.ADMIN_TOKEN \in {UNDEF, EMPTY, NULL}
                \/ procs[p].token # env.ADMIN_TOKEN) =>
               /\ procs[p].status = 401
               /\ procs[p].pc = "done"
               /\ NoStoreAccess(p))
    /\ [][\A p \in Procs :
            (procs[p].pc = "idle" /\ procs'[p].kind = "lookup"
                /\ procs'[p].status = 401) => UNCHANGED storage]_vars

\* C26 witness: a lookup with a wrong token, for the identifier of a record
\* a visit had stored, got 401
LookupRequiresTokenWitness ==
    \E p \in Lookups, q \in Inserted :
        /\ env.ADMIN_TOKEN = "secret"
        /\ procs[p].token = "wrong"
        /\ procs[p].cid = procs[q].cid
        /\ procs[p].status = 401

(***************************************************************************)
(* The singleton handle under concurrent requests (checked under Spec).    *)
(***************************************************************************)
\* C27: every instance a getDatabase() call resolves to has completed init()
\* when it is handed to the caller.
GetDatabaseReturnsInitialised ==
    \A p \in Tasks :
        (procs[p].pc = "have_db" /\ procs[p].db # 0
            /\ inst[procs[p].db].kind \in SharedKinds) =>
           inst[procs[p].db].inits > 0

\* C28: after init() has rejected inside getDatabase(), the singleton handle
\* does not hold the instance whose init() rejected.
FailedInitForgotten ==
    \A p \in Tasks :
        (procs[p].made # 0 /\ procs[p].call.op = "none"
            /\ procs[p].err \in {ErrInit, ErrConn}) =>
           dbInstance # procs[p].made

\* the tasks whose getDatabase() call constructed instance i and called its
\* init()
Creators(i) == {p \in Tasks : procs[p].made = i}

\* C29: an instance is constructed only when there is no handle, and becomes
\* the handle; every getDatabase() call resolves to the handle in force; the
\* handle changes only from none to a new instance and, by closeDatabase(),
\* from the instance it closed to none; closeDatabase() without a handle
\* changes nothing; init() is called on an instance once, by the call that
\* constructed it.
SingletonHandle ==
    /\ [](\A i \in Instances :
            /\ inst[i].inits <= 1
            /\ (inst[i].kind \in SharedKinds => Cardinality(Creators(i)) = 1))
    /\ [][ /\ Len(inst') # Len(inst) =>
               /\ dbInstance = 0
               /\ Len(inst') = Len(inst) + 1
               /\ dbInstance' = Len(inst')
           /\ \A p \in Tasks :
                (procs'[p].db # procs[p].db /\ procs'[p].kind # "close") =>
                    (dbInstance' # 0 /\ procs'[p].db = dbInstance')
           /\ dbInstance' # dbInstance =>
                \/ dbInstance = 0 /\ Len(inst') = Len(inst) + 1
                \/ /\ dbInstance' = 0
                   /\ inst'[dbInstance].closed
                   /\ \E p \in Procs : /\ procs[p].kind = "close"
                                        /\ procs[p].db = dbInstance
                                        /\ procs'[p].pc = "done"
           /\ \A p \in Procs :
                (procs[p].pc = "idle" /\ procs'[p].kind = "close") =>
                    IF dbInstance = 0
                    THEN UNCHANGED storage /\ procs'[p].pc = "done"
                    ELSE inst'[dbInstance].closed /\ procs'[p].db = dbInstance]_vars

\* C29 witness: two requests in flight hold the same instance, one of them
\* constructed it, and its init() has completed once
SingletonHandleWitness ==
    \E p \in Procs, q \in Procs :
        /\ procs[p].made # 0
        /\ procs[q].made = 0
        /\ procs[q].db = procs[p].made
        /\ procs[p].db = procs[p].made
        /\ inst[procs[p].made].inits = 1

(***************************************************************************)
(* One identifier per landing visit.                                       *)
(***************************************************************************)
\* the text names the identifier: it holds "(cid:" followed by cid
Mentions(text, cid) ==
    LET tag == <<"(", "c", "i", "d", ":">> \o cid
    IN \E i \in 1..(Len(text) - Len(tag) + 1) : SubSeq(text, i, i + Len(tag) - 1) = tag

\* where the identifier a visit generated appears in what it composed
CidShown ==
    [k \in DOMAIN UrlTable |->
        IF UrlTable[k].thrown # {}
        THEN [message |-> FALSE, https |-> FALSE, deep |-> FALSE]
        ELSE LET u == CHOOSE x \in UrlTable[k].ret : TRUE
             IN [message |-> Mentions(u.messageText, k[4]),
                 https |-> Mentions(decodeURIComponent(TextParam(u.httpsUrl)), k[4]),
                 deep |-> Mentions(decodeURIComponent(TextParam(u.deepLinkUrl)), k[4])]]
    @@ <<>>

\* what getClickByCid of the identifier of visit q returns in this state
LookupNow(q) == DbGetClickByCid(inst[procs[q].db], World, procs[q].cid)

\* the page of visit q and the record stored for it
Answered == {q \in Visits : procs[q].pc = "done" /\ procs[q].status = 200}

\* C30: a landing visit answered with the page built one record, whose cid
\* is the identifier it generated and whose slug is the slug requested; that
\* identifier is named in the messageText and in the text of both URLs of
\* the page; and when its write succeeded, looking the identifier up in the
\* open store returns the record of that visit.
VisitBindsOneCid ==
    \A q \in Answered :
        LET r == procs[q]
            in == RequestOf(r)
            shown == CidShown[<<deploy, in, env.WHATSAPP_NUMBER, r.cid>>]
        IN /\ Cardinality(r.click) = 1
           /\ ClickOf(r) = createClickRecord(r.cid, in.slug, in.now, VisitParams(in))
           /\ shown.message
           /\ shown.https
           /\ shown.deep
           /\ (q \in Inserted /\ ~inst[r.db].closed /\ LookupNow(q).res = OK) =>
                 \E row \in LookupNow(q).rows :
                    /\ LookupNow(q).rows = {row}
                    /\ row.cid = r.cid
                    /\ row.slug = in.slug
                    /\ row.created_at = in.now

====
